---- MODULE Spec2Model ----
(***************************************************************************)
(* Domain rules of the tuition-management backend: batch rosters, the      *)
(* attendance ledger and the payment ledger, as implemented by the Express *)
(* controllers and the Mongoose schemas.                                   *)
(*                                                                         *)
(* Every handler is one atomic action (requests are modelled one at a      *)
(* time).  A handler's outcome is the statusCode of the ErrorResponse it   *)
(* passes to next(), or the status it sends itself; an exception thrown    *)
(* inside a handler is mapped as errorHandler maps it (duplicate key and   *)
(* ValidationError -> 400, anything else -> 500).                          *)
(***************************************************************************)
EXTENDS Integers, Sequences, FiniteSets, TLC

VARIABLES users, batches, attendance, payments, assignments, materials, uploads,
          inflight, resp

vars == <<users, batches, attendance, payments, assignments, materials, uploads,
          inflight, resp>>

-----------------------------------------------------------------------------
(* Identities.  ObjectIds are modelled by short names; the role of a user  *)
(* is fixed by the name.  "s3" is a well-formed id of no stored user.      *)

None == "none"

Admins == {"a1"}
Teachers == {"t1", "t2"}
StudentUsers == {"s1", "s2"}
UserIds == Admins \cup Teachers \cup StudentUsers \cup {"s3"}
BatchIds == {"b1", "b2"}

role(u) == IF u \in Admins THEN "admin" ELSE IF u \in Teachers THEN "teacher" ELSE "student"

\* authorize(...roles): the route middleware lets the request through
authorize(roles, caller) == role(caller) \in roles

NoBatch == [exists |-> FALSE]

BatchExists(b) == batches[b].exists

\* Array.prototype.includes on the roster
includes(seq, x) == \E i \in 1..Len(seq) : seq[i] = x

\* Array.prototype.filter(id => id !== x)
RECURSIVE filterOut(_, _)
filterOut(seq, x) ==
    IF seq = <<>> THEN <<>>
    ELSE IF Head(seq) = x THEN filterOut(Tail(seq), x)
         ELSE <<Head(seq)>> \o filterOut(Tail(seq), x)

NoDuplicates(seq) == \A i, j \in 1..Len(seq) : seq[i] = seq[j] => i = j

-----------------------------------------------------------------------------
(* Batch registry                                                          *)

MaxCap == 2
MaxBatches == 1
Fees == {5, 7}

\* POST /api/batches
createBatchResult(caller, b, body) ==
    IF ~authorize({"admin", "teacher"}, caller)
    THEN [status |-> 403, batches |-> batches]
    ELSE LET teacher == IF role(caller) = "teacher" THEN caller ELSE body.teacher
         IN [status |-> 201,
             batches |-> [batches EXCEPT ![b] =
                            [exists |-> TRUE, teacher |-> teacher, students |-> <<>>,
                             maxStudents |-> body.maxStudents, fee |-> body.fee]]]

createBatch(caller, b, body) ==
    /\ ~BatchExists(b)
    /\ Cardinality({x \in BatchIds : BatchExists(x)}) < MaxBatches
    /\ LET r == createBatchResult(caller, b, body)
       IN /\ batches' = r.batches
          /\ resp' = [op |-> "createBatch", caller |-> caller, batch |-> b,
                      student |-> None, status |-> r.status]
    /\ UNCHANGED <<users, attendance, payments, assignments, materials,
                 uploads, inflight>>

addStudentToBatchResult_NoDupCheck(caller, b, studentId) ==
    IF ~authorize({"admin", "teacher"}, caller)
    THEN [status |-> 403, batches |-> batches]
    ELSE IF studentId = None
    THEN [status |-> 400, batches |-> batches]
    ELSE IF ~BatchExists(b) \/ studentId \notin users
    THEN [status |-> 404, batches |-> batches]
    ELSE IF Len(batches[b].students) >= batches[b].maxStudents
    THEN [status |-> 400, batches |-> batches]
    ELSE [status |-> 200,
          batches |-> [batches EXCEPT ![b].students = Append(@, studentId)]]

\* POST /api/batches/:id/students
addStudentToBatchResult(caller, b, studentId) ==
    IF ~authorize({"admin", "teacher"}, caller)
    THEN [status |-> 403, batches |-> batches]
    ELSE IF studentId = None
    THEN [status |-> 400, batches |-> batches]
    ELSE IF ~BatchExists(b) \/ studentId \notin users
    THEN [status |-> 404, batches |-> batches]
    ELSE IF includes(batches[b].students, studentId)
    THEN [status |-> 400, batches |-> batches]
    ELSE IF Len(batches[b].students) >= batches[b].maxStudents
    THEN [status |-> 400, batches |-> batches]
    ELSE [status |-> 200,
          batches |-> [batches EXCEPT ![b].students = Append(@, studentId)]]

addStudentToBatch(caller, b, studentId) ==
    /\ LET r == addStudentToBatchResult(caller, b, studentId)
       IN /\ batches' = r.batches
          /\ resp' = [op |-> "addStudentToBatch", caller |-> caller, batch |-> b,
                      student |-> studentId, status |-> r.status]
    /\ UNCHANGED <<users, attendance, payments, assignments, materials,
                 uploads, inflight>>

removeStudentFromBatchResult_NoEnrolledCheck(caller, b, studentId) ==
    IF ~authorize({"admin", "teacher"}, caller)
    THEN [status |-> 403, batches |-> batches]
    ELSE IF ~BatchExists(b)
    THEN [status |-> 404, batches |-> batches]
    ELSE [status |-> 200,
          batches |-> [batches EXCEPT ![b].students = filterOut(@, studentId)]]

\* DELETE /api/batches/:id/students/:studentId
removeStudentFromBatchResult(caller, b, studentId) ==
    IF ~authorize({"admin", "teacher"}, caller)
    THEN [status |-> 403, batches |-> batches]
    ELSE IF ~BatchExists(b)
    THEN [status |-> 404, batches |-> batches]
    ELSE IF ~includes(batches[b].students, studentId)
    THEN [status |-> 400, batches |-> batches]
    ELSE [status |-> 200,
          batches |-> [batches EXCEPT ![b].students = filterOut(@, studentId)]]

\* the TODO of the handler carried out: the student's attendance goes too
removeStudentFromBatch_Cleanup(caller, b, studentId) ==
    /\ LET r == removeStudentFromBatchResult(caller, b, studentId)
       IN /\ batches' = r.batches
          /\ attendance' = IF r.status = 200
                           THEN {a \in attendance : ~(a.student = studentId /\ a.batch = b)}
                           ELSE attendance
          /\ resp' = [op |-> "removeStudentFromBatch", caller |-> caller, batch |-> b,
                      student |-> studentId, status |-> r.status]
    /\ UNCHANGED <<users, payments, assignments, materials,
                 uploads, inflight>>

removeStudentFromBatch(caller, b, studentId) ==
    /\ LET r == removeStudentFromBatchResult(caller, b, studentId)
       IN /\ batches' = r.batches
          /\ resp' = [op |-> "removeStudentFromBatch", caller |-> caller, batch |-> b,
                      student |-> studentId, status |-> r.status]
    /\ UNCHANGED <<users, attendance, payments, assignments, materials,
                 uploads, inflight>>

-----------------------------------------------------------------------------
(* Attendance ledger.  A Date is its number of milliseconds since the      *)
(* start of day 0, in the server's local time.  A record carries the       *)
(* schema's fields; firstMarkedBy is a history field (not stored by the    *)
(* program) that remembers who created the record.                         *)

SecondMs == 1000
HourMs == 60 * 60 * SecondMs
DayMs == 24 * HourMs
\* 23:59:59, the arguments of the second setHours
LastSecondMs == 23 * HourMs + 59 * 60 * SecondMs + 59 * SecondMs
TenAM == 10 * HourMs

\* a request body without a date field
NoDate == 0 - 1

At(day, timeOfDay) == day * DayMs + timeOfDay
DayOf(d) == d \div DayMs

\* new Date(new Date(d).setHours(0, 0, 0)): the milliseconds are kept
setHoursStart(d) == DayOf(d) * DayMs + (d % SecondMs)
\* new Date(new Date(d).setHours(23, 59, 59))
setHoursEnd(d) == DayOf(d) * DayMs + LastSecondMs + (d % SecondMs)

AttendanceStatuses == {"present", "absent", "late", "excused"}

\* Attendance.findOne({student, batch, date: {$gte, $lt}}): the matching
\* records; the compound index hands them out by ascending date
findAttendances(ledger, student, b, date) ==
    {r \in ledger : /\ r.student = student
                    /\ r.batch = b
                    /\ r.date >= setHoursStart(date)
                    /\ r.date < setHoursEnd(date)}

firstByDate(recs) == CHOOSE r \in recs : \A q \in recs : r.date <= q.date

\* unique index {student, batch, date}: would storing doc (in place of old) clash?
attendanceIndexClash(ledger, doc) ==
    \E r \in ledger : r.student = doc.student /\ r.batch = doc.batch /\ r.date = doc.date

\* pre('save') hook: Batch.findOne({_id: this.batch, students: this.student})
preSaveEnrolled(doc) ==
    /\ doc.batch \in BatchIds
    /\ BatchExists(doc.batch)
    /\ includes(batches[doc.batch].students, doc.student)

\* POST /api/attendance
createAttendanceResult(caller, body) ==
    LET doc == [student |-> body.student, batch |-> body.batch, date |-> body.date,
                status |-> body.status, markedBy |-> caller, firstMarkedBy |-> caller]
    IN IF ~authorize({"admin", "teacher"}, caller)
       THEN [status |-> 403, attendance |-> attendance]
       ELSE IF findAttendances(attendance, body.student, body.batch, body.date) # {}
       THEN [status |-> 400, attendance |-> attendance]
       ELSE IF ~BatchExists(body.batch)
       THEN [status |-> 500, attendance |-> attendance]   \* batch is null: TypeError
       ELSE IF ~includes(batches[body.batch].students, body.student)
       THEN [status |-> 400, attendance |-> attendance]
       ELSE IF ~preSaveEnrolled(doc)
       THEN [status |-> 500, attendance |-> attendance]
       ELSE IF attendanceIndexClash(attendance, doc)
       THEN [status |-> 400, attendance |-> attendance]   \* E11000
       ELSE [status |-> 201, attendance |-> attendance \cup {doc}]

createAttendance(caller, body) ==
    /\ LET r == createAttendanceResult(caller, body)
       IN /\ attendance' = r.attendance
          /\ resp' = [op |-> "createAttendance", caller |-> caller, body |-> body,
                      status |-> r.status]
    /\ UNCHANGED <<users, batches, payments, assignments, materials,
                 uploads, inflight>>

\* findByIdAndUpdate(id, req.body): the fields the body names are replaced
applyAttendanceUpdate(rec, body) ==
    [rec EXCEPT !.status = IF body.status = None THEN @ ELSE body.status,
                !.date = IF body.date = NoDate THEN @ ELSE body.date]

updateAttendanceResult_NoMarkerCheck(caller, rec, body) ==
    IF ~authorize({"admin", "teacher"}, caller)
    THEN [status |-> 403, attendance |-> attendance]
    ELSE IF rec \notin attendance
    THEN [status |-> 404, attendance |-> attendance]
    ELSE LET upd == applyAttendanceUpdate(rec, body)
         IN IF attendanceIndexClash(attendance \ {rec}, upd)
            THEN [status |-> 400, attendance |-> attendance]
            ELSE [status |-> 200, attendance |-> (attendance \ {rec}) \cup {upd}]

\* PUT /api/attendance/:id  (a rec outside the ledger: no record has that id)
updateAttendanceResult(caller, rec, body) ==
    IF ~authorize({"admin", "teacher"}, caller)
    THEN [status |-> 403, attendance |-> attendance]
    ELSE IF rec \notin attendance
    THEN [status |-> 404, attendance |-> attendance]
    ELSE IF rec.markedBy # caller /\ role(caller) # "admin"
    THEN [status |-> 403, attendance |-> attendance]
    ELSE LET upd == applyAttendanceUpdate(rec, body)
         IN IF attendanceIndexClash(attendance \ {rec}, upd)
            THEN [status |-> 400, attendance |-> attendance]   \* E11000
            ELSE [status |-> 200, attendance |-> (attendance \ {rec}) \cup {upd}]

updateAttendance(caller, rec, body) ==
    /\ LET r == updateAttendanceResult(caller, rec, body)
       IN /\ attendance' = r.attendance
          /\ resp' = [op |-> "updateAttendance", caller |-> caller, record |-> rec,
                      body |-> body, status |-> r.status]
    /\ UNCHANGED <<users, batches, payments, assignments, materials,
                 uploads, inflight>>

\* DELETE /api/attendance/:id
deleteAttendanceResult(caller, rec) ==
    IF ~authorize({"admin", "teacher"}, caller)
    THEN [status |-> 403, attendance |-> attendance]
    ELSE IF rec \notin attendance
    THEN [status |-> 404, attendance |-> attendance]
    ELSE IF rec.markedBy # caller /\ role(caller) # "admin"
    THEN [status |-> 403, attendance |-> attendance]
    ELSE [status |-> 200, attendance |-> attendance \ {rec}]

deleteAttendance(caller, rec) ==
    /\ LET r == deleteAttendanceResult(caller, rec)
       IN /\ attendance' = r.attendance
          /\ resp' = [op |-> "deleteAttendance", caller |-> caller, record |-> rec,
                      status |-> r.status]
    /\ UNCHANGED <<users, batches, payments, assignments, materials,
                 uploads, inflight>>

\* GET /api/attendance/:id.  reqUser is req.user: the route has no protect
\* middleware, so the handler runs with req.user undefined (None).
getAttendanceResult(reqUser, rec) ==
    IF rec \notin attendance
    THEN [status |-> 404]
    ELSE IF reqUser = None
    THEN [status |-> 500]   \* req.user.role: TypeError
    ELSE IF role(reqUser) = "student" /\ rec.student # reqUser
    THEN [status |-> 403]
    ELSE [status |-> 200]

getAttendance(reqUser, rec) ==
    /\ resp' = [op |-> "getAttendance", caller |-> reqUser, record |-> rec,
                status |-> getAttendanceResult(reqUser, rec).status]
    /\ UNCHANGED <<users, batches, attendance, payments, assignments, materials,
                 uploads, inflight>>

\* the for loop of markMultipleAttendances over the entries, in order
RECURSIVE markLoop(_, _, _, _, _, _, _)
markLoop(entries, ledger, results, errors, caller, b, date) ==
    IF entries = <<>>
    THEN [attendance |-> ledger, results |-> results, errors |-> errors]
    ELSE LET att == Head(entries)
             rest == Tail(entries)
             found == findAttendances(ledger, att.student, b, date)
         IN IF ~includes(batches[b].students, att.student)
            THEN markLoop(rest, ledger, results, errors + 1, caller, b, date)
            ELSE IF found # {}
            THEN LET old == firstByDate(found)
                     upd == [old EXCEPT !.status = att.status, !.markedBy = caller]
                 IN IF ~preSaveEnrolled(upd)
                    THEN markLoop(rest, ledger, results, errors + 1, caller, b, date)
                    ELSE markLoop(rest, (ledger \ {old}) \cup {upd}, results + 1, errors,
                                  caller, b, date)
            ELSE LET doc == [student |-> att.student, batch |-> b, date |-> date,
                             status |-> att.status, markedBy |-> caller,
                             firstMarkedBy |-> caller]
                 IN IF ~preSaveEnrolled(doc) \/ attendanceIndexClash(ledger, doc)
                    THEN markLoop(rest, ledger, results, errors + 1, caller, b, date)
                    ELSE markLoop(rest, ledger \cup {doc}, results + 1, errors,
                                  caller, b, date)

\* POST /api/attendance/mark
markMultipleAttendancesResult(caller, b, date, entries) ==
    IF ~authorize({"admin", "teacher"}, caller)
    THEN [status |-> 403, attendance |-> attendance, results |-> 0, errors |-> 0,
          success |-> FALSE]
    ELSE IF ~BatchExists(b)
    THEN [status |-> 404, attendance |-> attendance, results |-> 0, errors |-> 0,
          success |-> FALSE]
    ELSE IF batches[b].teacher # caller /\ role(caller) # "admin"
    THEN [status |-> 403, attendance |-> attendance, results |-> 0, errors |-> 0,
          success |-> FALSE]
    ELSE LET r == markLoop(entries, attendance, 0, 0, caller, b, date)
         IN [status |-> 200, attendance |-> r.attendance, results |-> r.results,
             errors |-> r.errors, success |-> (r.errors = 0)]

markMultipleAttendances(caller, b, date, entries) ==
    /\ LET r == markMultipleAttendancesResult(caller, b, date, entries)
       IN /\ attendance' = r.attendance
          /\ resp' = [op |-> "markMultipleAttendances", caller |-> caller, batch |-> b,
                      date |-> date, entries |-> entries, status |-> r.status,
                      results |-> r.results, errors |-> r.errors, success |-> r.success]
    /\ UNCHANGED <<users, batches, payments, assignments, materials,
                 uploads, inflight>>

\* the controller file never requires mongoose, which the summary handler names
mongooseInScope == FALSE

\* the $match / $group / $project pipeline: one {status, count} per status present
aggregateByStatus(studentId, b) ==
    {[status |-> st,
      count |-> Cardinality({r \in attendance :
                    r.student = studentId /\ r.batch = b /\ r.status = st})] :
        st \in {x \in AttendanceStatuses :
                    \E r \in attendance : r.student = studentId /\ r.batch = b /\ r.status = x}}

RECURSIVE sumCounts(_)
sumCounts(groups) ==
    IF groups = {} THEN 0
    ELSE LET g == CHOOSE x \in groups : TRUE
         IN g.count + sumCounts(groups \ {g})

\* Math.round(x) for x = num / den >= 0: floor(x + 1/2)
MathRound(num, den) == (2 * num + den) \div (2 * den)

\* GET /api/attendance/summary/student/:studentId/batch/:batchId
getStudentAttendanceSummaryResult(caller, studentId, b) ==
    IF ~BatchExists(b)
    THEN [status |-> 404, total |-> 0, percentage |-> 0]
    ELSE IF role(caller) = "student" /\ caller # studentId /\ caller # batches[b].teacher
    THEN [status |-> 403, total |-> 0, percentage |-> 0]
    ELSE IF ~mongooseInScope
    THEN [status |-> 500, total |-> 0, percentage |-> 0]   \* ReferenceError
    ELSE LET summary == aggregateByStatus(studentId, b)
             total == sumCounts(summary)
             present == IF \E g \in summary : g.status = "present"
                        THEN (CHOOSE g \in summary : g.status = "present").count
                        ELSE 0
         IN [status |-> 200, total |-> total,
             percentage |-> IF total > 0 THEN MathRound(present * 100, total) ELSE 0]

getStudentAttendanceSummary(caller, studentId, b) ==
    /\ LET r == getStudentAttendanceSummaryResult(caller, studentId, b)
       IN resp' = [op |-> "getStudentAttendanceSummary", caller |-> caller,
                   student |-> studentId, batch |-> b, status |-> r.status,
                   total |-> r.total, percentage |-> r.percentage]
    /\ UNCHANGED <<users, batches, attendance, payments, assignments, materials,
                 uploads, inflight>>

-----------------------------------------------------------------------------
(* Payment ledger.  A receipt number RCPT-<year>-<n> is modelled by n;     *)
(* NoReceipt is a payment without one.  A request body that leaves a field *)
(* out has None there (hasAmount = FALSE for the amount); Falsy stands for  *)
(* a field that is present with an empty value.                            *)

NoReceipt == 0
Falsy == ""

PaymentMethods == {"cash", "card", "bank_transfer", "upi", "cheque", "other"}
PaymentStatuses == {"pending", "completed", "failed", "refunded"}

\* Payment.findOne({student, batch, month})
findPayments(ledger, student, b, month) ==
    {p \in ledger : p.student = student /\ p.batch = b /\ p.month = month}

paymentIndexClash_NoIndex(ledger, doc) == FALSE

\* unique index {student, batch, month} and unique sparse index receiptNumber
paymentIndexClash(ledger, doc) ==
    \/ findPayments(ledger, doc.student, doc.batch, doc.month) # {}
    \/ /\ doc.receiptNumber # NoReceipt
       /\ \E p \in ledger : p.receiptNumber = doc.receiptNumber

\* schema validators that the modelled bodies can fail
paymentValid(doc) ==
    /\ doc.amount >= 0
    /\ doc.paymentMethod \in PaymentMethods
    /\ doc.status \in PaymentStatuses

\* pre('save') hook: a completed payment without receipt gets count + 1
preSaveReceipt(ledger, doc) ==
    IF doc.receiptNumber = NoReceipt /\ doc.status = "completed"
    THEN [doc EXCEPT !.receiptNumber = Cardinality(ledger) + 1]
    ELSE doc

createPaymentResult_Overwrite(caller, body) ==
    IF ~authorize({"admin", "teacher"}, caller)
    THEN [status |-> 403, payments |-> payments]
    ELSE IF ~BatchExists(body.batch)
    THEN [status |-> 500, payments |-> payments]
    ELSE IF ~includes(batches[body.batch].students, body.student)
    THEN [status |-> 400, payments |-> payments]
    ELSE LET amount == IF ~body.hasAmount \/ body.amount = 0
                       THEN batches[body.batch].fee ELSE body.amount
             old == findPayments(payments, body.student, body.batch, body.month)
             doc == preSaveReceipt(payments \ old,
                        [student |-> body.student, batch |-> body.batch,
                         month |-> body.month, amount |-> amount,
                         paymentMethod |-> body.paymentMethod,
                         status |-> IF body.paymentMethod # "online"
                                    THEN "completed" ELSE "pending",
                         receiptNumber |-> NoReceipt, recordedBy |-> caller])
         IN IF ~paymentValid(doc) \/ paymentIndexClash(payments \ old, doc)
            THEN [status |-> 400, payments |-> payments]
            ELSE [status |-> 201, payments |-> (payments \ old) \cup {doc}]

\* POST /api/payments
createPaymentResult(caller, body) ==
    IF ~authorize({"admin", "teacher"}, caller)
    THEN [status |-> 403, payments |-> payments]
    ELSE IF findPayments(payments, body.student, body.batch, body.month) # {}
    THEN [status |-> 400, payments |-> payments]
    ELSE IF ~BatchExists(body.batch)
    THEN [status |-> 500, payments |-> payments]   \* batchDoc is null: TypeError
    ELSE IF ~includes(batches[body.batch].students, body.student)
    THEN [status |-> 400, payments |-> payments]
    ELSE LET \* if (!amount): an amount of 0 counts as not provided
             amount == IF ~body.hasAmount \/ body.amount = 0
                       THEN batches[body.batch].fee ELSE body.amount
             doc == preSaveReceipt(payments,
                        [student |-> body.student, batch |-> body.batch,
                         month |-> body.month, amount |-> amount,
                         paymentMethod |-> body.paymentMethod,
                         status |-> IF body.paymentMethod # "online"
                                    THEN "completed" ELSE "pending",
                         receiptNumber |-> NoReceipt, recordedBy |-> caller])
         IN IF ~paymentValid(doc)
            THEN [status |-> 400, payments |-> payments]   \* ValidationError
            ELSE IF paymentIndexClash(payments, doc)
            THEN [status |-> 400, payments |-> payments]   \* E11000
            ELSE [status |-> 201, payments |-> payments \cup {doc}]

createPayment(caller, body) ==
    /\ LET r == createPaymentResult(caller, body)
       IN /\ payments' = r.payments
          /\ resp' = [op |-> "createPayment", caller |-> caller, body |-> body,
                      status |-> r.status]
    /\ UNCHANGED <<users, batches, attendance, assignments, materials,
                 uploads, inflight>>

\* findByIdAndUpdate(id, req.body): the fields the body names are replaced
applyPaymentUpdate(rec, body) ==
    [rec EXCEPT !.student = IF body.student = None THEN @ ELSE body.student,
                !.batch = IF body.batch = None THEN @ ELSE body.batch,
                !.month = IF body.month = None THEN @ ELSE body.month,
                !.amount = IF body.hasAmount THEN body.amount ELSE @,
                !.status = IF body.status = None THEN @ ELSE body.status,
                !.receiptNumber = IF body.namesReceipt THEN body.receiptNumber
                                  ELSE @]

namesKey_MonthForgotten(body) ==
    \/ body.student \notin {None, Falsy}
    \/ body.batch \notin {None, Falsy}

\* if (req.body.student || req.body.batch || req.body.month)
namesKey(body) ==
    \/ body.student \notin {None, Falsy}
    \/ body.batch \notin {None, Falsy}
    \/ body.month \notin {None, Falsy}

\* runValidators: a required field set to an empty value fails validation
updateValidatorsPass(upd) ==
    /\ upd.student # Falsy
    /\ upd.batch # Falsy
    /\ upd.month # Falsy
    /\ paymentValid(upd)

\* PUT /api/payments/:id
updatePaymentResult(caller, rec, body) ==
    IF ~authorize({"admin"}, caller)
    THEN [status |-> 403, payments |-> payments]
    ELSE IF rec \notin payments
    THEN [status |-> 404, payments |-> payments]
    ELSE IF namesKey(body)
    THEN [status |-> 400, payments |-> payments]
    ELSE LET upd == applyPaymentUpdate(rec, body)
         IN IF ~updateValidatorsPass(upd)
            THEN [status |-> 400, payments |-> payments]   \* ValidationError
            ELSE IF paymentIndexClash(payments \ {rec}, upd)
            THEN [status |-> 400, payments |-> payments]   \* E11000
            ELSE [status |-> 200, payments |-> (payments \ {rec}) \cup {upd}]

updatePayment(caller, rec, body) ==
    /\ LET r == updatePaymentResult(caller, rec, body)
       IN /\ payments' = r.payments
          /\ resp' = [op |-> "updatePayment", caller |-> caller, record |-> rec,
                      body |-> body, status |-> r.status]
    /\ UNCHANGED <<users, batches, attendance, assignments, materials,
                 uploads, inflight>>

\* DELETE /api/payments/:id
deletePaymentResult(caller, rec) ==
    IF ~authorize({"admin"}, caller)
    THEN [status |-> 403, payments |-> payments]
    ELSE IF rec \notin payments
    THEN [status |-> 404, payments |-> payments]
    ELSE [status |-> 200, payments |-> payments \ {rec}]

deletePayment(caller, rec) ==
    /\ LET r == deletePaymentResult(caller, rec)
       IN /\ payments' = r.payments
          /\ resp' = [op |-> "deletePayment", caller |-> caller, record |-> rec,
                      status |-> r.status]
    /\ UNCHANGED <<users, batches, attendance, assignments, materials,
                 uploads, inflight>>

\* PUT /api/batches/:id with a body that names the fee
updateBatchResult(caller, b, body) ==
    IF ~authorize({"admin", "teacher"}, caller)
    THEN [status |-> 403, batches |-> batches]
    ELSE IF ~BatchExists(b)
    THEN [status |-> 404, batches |-> batches]
    ELSE IF batches[b].teacher # caller /\ role(caller) # "admin"
    THEN [status |-> 403, batches |-> batches]
    ELSE [status |-> 200, batches |-> [batches EXCEPT ![b].fee = body.fee]]

updateBatch(caller, b, body) ==
    /\ LET r == updateBatchResult(caller, b, body)
       IN /\ batches' = r.batches
          /\ resp' = [op |-> "updateBatch", caller |-> caller, batch |-> b,
                      body |-> body, status |-> r.status]
    /\ UNCHANGED <<users, attendance, payments, assignments, materials,
                 uploads, inflight>>

-----------------------------------------------------------------------------
(* Assignments and their embedded submissions.  Times are small integers;  *)
(* now is the value of new Date() in the handler.  The files of a request  *)
(* are an input of the request (the multipart middleware is not modelled). *)
(* A submission that was never graded has marksObtained = NoMarks and      *)
(* gradedBy = None.                                                        *)

AssignmentIds == {"as1", "as2"}
NoMarks == 0 - 1

findAssignment(id) == {a \in assignments : a.id = id}

\* submissions.findIndex(sub => sub.student.toString() === studentId); 0 for -1
findIndex(subs, studentId) ==
    IF \E i \in 1..Len(subs) : subs[i].student = studentId
    THEN CHOOSE i \in 1..Len(subs) :
            /\ subs[i].student = studentId
            /\ \A j \in 1..(i - 1) : subs[j].student # studentId
    ELSE 0

\* assignmentSchema has no allowLateSubmission path: create drops the field
\* and a stored assignment reads it as undefined
allowLateSubmission(a) == FALSE

\* min and max of submissions.marksObtained
marksValid(a, marksObtained) ==
    marksObtained = NoMarks \/ (0 <= marksObtained /\ marksObtained <= a.totalMarks)

\* POST /api/assignments
createAssignmentResult(caller, id, body) ==
    IF ~authorize({"admin", "teacher"}, caller)
    THEN [status |-> 403, assignments |-> assignments]
    ELSE IF ~BatchExists(body.batch)
    THEN [status |-> 404, assignments |-> assignments]
    ELSE IF batches[body.batch].teacher # caller /\ role(caller) # "admin"
    THEN [status |-> 403, assignments |-> assignments]
    ELSE IF body.totalMarks < 1
    THEN [status |-> 400, assignments |-> assignments]
    ELSE [status |-> 201,
          assignments |-> assignments \cup
              {[id |-> id, batch |-> body.batch, assignedBy |-> caller,
                dueDate |-> body.dueDate, totalMarks |-> body.totalMarks,
                isActive |-> TRUE, submissions |-> <<>>]}]

createAssignment(caller, id, body) ==
    /\ findAssignment(id) = {}
    /\ LET r == createAssignmentResult(caller, id, body)
       IN /\ assignments' = r.assignments
          /\ resp' = [op |-> "createAssignment", caller |-> caller, id |-> id,
                      body |-> body, status |-> r.status]
    /\ UNCHANGED <<users, batches, attendance, payments, materials,
                 uploads, inflight>>

\* PUT /api/assignments/:id with a body that names totalMarks
updateAssignmentResult(caller, id, body) ==
    IF ~authorize({"admin", "teacher"}, caller)
    THEN [status |-> 403, assignments |-> assignments]
    ELSE IF \A a \in findAssignment(id) : ~a.isActive
    THEN [status |-> 404, assignments |-> assignments]
    ELSE LET a == CHOOSE x \in findAssignment(id) : TRUE
         IN IF ~BatchExists(a.batch)
            THEN [status |-> 500, assignments |-> assignments]
            ELSE IF batches[a.batch].teacher # caller /\ role(caller) # "admin"
            THEN [status |-> 403, assignments |-> assignments]
            ELSE IF body.totalMarks < 1
            THEN [status |-> 400, assignments |-> assignments]
            ELSE [status |-> 200,
                  assignments |-> (assignments \ {a}) \cup
                                      {[a EXCEPT !.totalMarks = body.totalMarks]}]

updateAssignment(caller, id, body) ==
    /\ LET r == updateAssignmentResult(caller, id, body)
       IN /\ assignments' = r.assignments
          /\ resp' = [op |-> "updateAssignment", caller |-> caller, id |-> id,
                      body |-> body, status |-> r.status]
    /\ UNCHANGED <<users, batches, attendance, payments, materials,
                 uploads, inflight>>

submittedEntry_AlwaysPush(a, caller, now, files) ==
    Append(a.submissions,
           [student |-> caller, submittedAt |-> now, files |-> files,
            status |-> IF now > a.dueDate THEN "late" ELSE "submitted",
            marksObtained |-> NoMarks, feedback |-> None, gradedBy |-> None])

\* the entry submitAssignment stores: a first submission is pushed; a later
\* one overwrites the student's entry, keeping the fields it does not name
submittedEntry(a, caller, now, files) ==
    LET isLate == now > a.dueDate
        submission == [student |-> caller, submittedAt |-> now, files |-> files,
                       status |-> IF isLate THEN "late" ELSE "submitted",
                       marksObtained |-> NoMarks, feedback |-> None,
                       gradedBy |-> None]
        submissionIndex == findIndex(a.submissions, caller)
    IN IF submissionIndex >= 1
       THEN [a.submissions EXCEPT ![submissionIndex] =
                [@ EXCEPT !.student = caller, !.submittedAt = now, !.files = files,
                          !.status = "resubmitted"]]
       ELSE Append(a.submissions, submission)

submitAssignmentResult_NoLateCheck(caller, id, now, files) ==
    IF ~authorize({"student"}, caller)
    THEN [status |-> 403, assignments |-> assignments]
    ELSE IF \A a \in findAssignment(id) : ~a.isActive
    THEN [status |-> 404, assignments |-> assignments]
    ELSE LET a == CHOOSE x \in findAssignment(id) : TRUE
         IN IF ~BatchExists(a.batch)
            THEN [status |-> 500, assignments |-> assignments]
            ELSE IF ~includes(batches[a.batch].students, caller)
            THEN [status |-> 403, assignments |-> assignments]
            ELSE LET subs == submittedEntry(a, caller, now, files)
                     i == findIndex(subs, caller)
                 IN IF ~marksValid(a, subs[i].marksObtained)
                    THEN [status |-> 400, assignments |-> assignments]
                    ELSE [status |-> 200,
                          assignments |-> (assignments \ {a}) \cup
                                              {[a EXCEPT !.submissions = subs]}]

\* POST /api/assignments/:id/submit
submitAssignmentResult(caller, id, now, files) ==
    IF ~authorize({"student"}, caller)
    THEN [status |-> 403, assignments |-> assignments]
    ELSE IF \A a \in findAssignment(id) : ~a.isActive
    THEN [status |-> 404, assignments |-> assignments]
    ELSE LET a == CHOOSE x \in findAssignment(id) : TRUE
         IN IF ~BatchExists(a.batch)
            THEN [status |-> 500, assignments |-> assignments]
            ELSE IF ~includes(batches[a.batch].students, caller)
            THEN [status |-> 403, assignments |-> assignments]
            ELSE IF now > a.dueDate /\ ~allowLateSubmission(a)
            THEN [status |-> 400, assignments |-> assignments]
            ELSE LET subs == submittedEntry(a, caller, now, files)
                     i == findIndex(subs, caller)
                 IN IF ~marksValid(a, subs[i].marksObtained)
                    THEN [status |-> 400, assignments |-> assignments]
                    ELSE [status |-> 200,
                          assignments |-> (assignments \ {a}) \cup
                                              {[a EXCEPT !.submissions = subs]}]

submitAssignment(caller, id, now, files) ==
    /\ LET r == submitAssignmentResult(caller, id, now, files)
       IN /\ assignments' = r.assignments
          /\ resp' = [op |-> "submitAssignment", caller |-> caller, id |-> id,
                      now |-> now, files |-> files, status |-> r.status]
    /\ UNCHANGED <<users, batches, attendance, payments, materials,
                 uploads, inflight>>

gradeSubmissionResult_OnlyUngraded(caller, id, studentId, marksObtained, feedback) ==
    IF ~authorize({"admin", "teacher"}, caller)
    THEN [status |-> 403, assignments |-> assignments]
    ELSE IF \A a \in findAssignment(id) : ~a.isActive
    THEN [status |-> 404, assignments |-> assignments]
    ELSE LET a == CHOOSE x \in findAssignment(id) : TRUE
         IN IF ~BatchExists(a.batch)
            THEN [status |-> 500, assignments |-> assignments]
            ELSE IF batches[a.batch].teacher # caller /\ role(caller) # "admin"
            THEN [status |-> 403, assignments |-> assignments]
            ELSE LET submissionIndex == findIndex(a.submissions, studentId)
                 IN IF submissionIndex = 0
                    THEN [status |-> 404, assignments |-> assignments]
                    ELSE IF \/ ~marksValid(a, marksObtained)
                            \/ a.submissions[submissionIndex].status = "graded"
                    THEN [status |-> 400, assignments |-> assignments]
                    ELSE [status |-> 200,
                          assignments |-> (assignments \ {a}) \cup
                              {[a EXCEPT !.submissions[submissionIndex] =
                                  [@ EXCEPT !.marksObtained = marksObtained,
                                            !.feedback = feedback,
                                            !.gradedBy = caller,
                                            !.status = "graded"]]}]

\* PUT /api/assignments/:assignmentId/grade/:studentId
gradeSubmissionResult(caller, id, studentId, marksObtained, feedback) ==
    IF ~authorize({"admin", "teacher"}, caller)
    THEN [status |-> 403, assignments |-> assignments]
    ELSE IF \A a \in findAssignment(id) : ~a.isActive
    THEN [status |-> 404, assignments |-> assignments]
    ELSE LET a == CHOOSE x \in findAssignment(id) : TRUE
         IN IF ~BatchExists(a.batch)
            THEN [status |-> 500, assignments |-> assignments]
            ELSE IF batches[a.batch].teacher # caller /\ role(caller) # "admin"
            THEN [status |-> 403, assignments |-> assignments]
            ELSE LET submissionIndex == findIndex(a.submissions, studentId)
                 IN IF submissionIndex = 0
                    THEN [status |-> 404, assignments |-> assignments]
                    ELSE IF ~marksValid(a, marksObtained)
                    THEN [status |-> 400, assignments |-> assignments]
                    ELSE [status |-> 200,
                          assignments |-> (assignments \ {a}) \cup
                              {[a EXCEPT !.submissions[submissionIndex] =
                                  [@ EXCEPT !.marksObtained = marksObtained,
                                            !.feedback = feedback,
                                            !.gradedBy = caller,
                                            !.status = "graded"]]}]

gradeSubmission(caller, id, studentId, marksObtained, feedback) ==
    /\ LET r == gradeSubmissionResult(caller, id, studentId, marksObtained, feedback)
       IN /\ assignments' = r.assignments
          /\ resp' = [op |-> "gradeSubmission", caller |-> caller, id |-> id,
                      student |-> studentId, marksObtained |-> marksObtained,
                      feedback |-> feedback, status |-> r.status]
    /\ UNCHANGED <<users, batches, attendance, payments, materials,
                 uploads, inflight>>

\* a route without the protect middleware: nothing sets req.user, whoever
\* sends the request
unprotected(requester) == None

\* GET /api/assignments/:id.  reqUser is req.user
getAssignmentResult(reqUser, id) ==
    IF \A a \in findAssignment(id) : ~a.isActive
    THEN [status |-> 404, submissions |-> <<>>]
    ELSE LET a == CHOOSE x \in findAssignment(id) : TRUE
         IN IF ~BatchExists(a.batch) \/ reqUser = None
            THEN [status |-> 500, submissions |-> <<>>]   \* TypeError
            ELSE IF /\ role(reqUser) = "student"
                    /\ ~includes(batches[a.batch].students, reqUser)
                    /\ batches[a.batch].teacher # reqUser
            THEN [status |-> 403, submissions |-> <<>>]
            ELSE IF role(reqUser) = "student"
            THEN LET i == findIndex(a.submissions, reqUser)
                 IN [status |-> 200,
                     submissions |-> IF i = 0 THEN <<>> ELSE <<a.submissions[i]>>]
            ELSE [status |-> 200, submissions |-> a.submissions]

getAssignment(requester, id) ==
    /\ LET r == getAssignmentResult(unprotected(requester), id)
       IN resp' = [op |-> "getAssignment", caller |-> requester, id |-> id,
                   status |-> r.status, submissions |-> r.submissions]
    /\ UNCHANGED <<users, batches, attendance, payments, assignments, materials,
                 uploads, inflight>>

\* GET /api/batches.  reqUser is req.user; advanced is res.advancedResults,
\* which the advancedResults middleware built before the handler runs
getBatchesResult(reqUser, advanced) ==
    IF reqUser = None
    THEN [status |-> 500, data |-> {}]   \* req.user.role: TypeError
    ELSE [status |-> 200, data |-> advanced]

getBatches(requester, advanced) ==
    /\ LET r == getBatchesResult(unprotected(requester), advanced)
       IN resp' = [op |-> "getBatches", caller |-> requester, status |-> r.status,
                   data |-> r.data]
    /\ UNCHANGED <<users, batches, attendance, payments, assignments, materials,
                 uploads, inflight>>

-----------------------------------------------------------------------------
(* Study materials.  file is the uploaded file of the request, named by    *)
(* its kind (None: no file).  teacherAtUpload is a history field (not      *)
(* stored by the program): the batch's teacher when the record was made.   *)

MaterialIds == {"m1", "m2"}
FileKinds == {"pdf", "exe"}

\* the fileTypes allow-list of uploadMaterial
fileTypes == {"pdf"}

preSaveUploader_AnyUploader(doc) == TRUE

\* materialSchema.pre('save'): a batch with this id and this teacher exists
preSaveUploader(doc) ==
    BatchExists(doc.batch) /\ batches[doc.batch].teacher = doc.uploadedBy

\* POST /api/materials
uploadMaterialResult(caller, id, body, file) ==
    IF ~authorize({"admin", "teacher"}, caller)
    THEN [status |-> 403, materials |-> materials]
    ELSE IF ~BatchExists(body.batch)
    THEN [status |-> 404, materials |-> materials]
    ELSE IF batches[body.batch].teacher # caller /\ role(caller) # "admin"
    THEN [status |-> 403, materials |-> materials]
    ELSE IF file = None \/ file \notin fileTypes
    THEN [status |-> 400, materials |-> materials]
    ELSE LET doc == [id |-> id, batch |-> body.batch, uploadedBy |-> caller,
                     title |-> body.title, file |-> file,
                     teacherAtUpload |-> batches[body.batch].teacher]
         IN IF body.title \in {None, Falsy}
            THEN [status |-> 400, materials |-> materials]   \* title is required
            ELSE IF ~preSaveUploader(doc)
            THEN [status |-> 500, materials |-> materials]
            ELSE [status |-> 201, materials |-> materials \cup {doc}]

uploadMaterial(caller, id, body, file) ==
    /\ \A m \in materials : m.id # id
    /\ LET r == uploadMaterialResult(caller, id, body, file)
       IN /\ materials' = r.materials
          /\ resp' = [op |-> "uploadMaterial", caller |-> caller, id |-> id,
                      body |-> body, file |-> file, status |-> r.status]
    /\ UNCHANGED <<users, batches, attendance, payments, assignments,
                 uploads, inflight>>

findMaterial(id) == {m \in materials : m.id = id}

\* PUT /api/materials/:id; file is the replacement file of the request (None:
\* the request has no file), unlinkFails says that deleting the old stored
\* file is rejected.  No stored material has isActive false: nothing in the
\* sources sets it.
updateMaterialResult(caller, id, body, file, unlinkFails) ==
    IF ~authorize({"admin", "teacher"}, caller)
    THEN [status |-> 403, materials |-> materials]
    ELSE IF findMaterial(id) = {}
    THEN [status |-> 404, materials |-> materials]
    ELSE LET material == CHOOSE m \in findMaterial(id) : TRUE
         IN IF material.uploadedBy # caller /\ role(caller) # "admin"
            THEN [status |-> 403, materials |-> materials]
            ELSE IF file # None /\ unlinkFails
            THEN \* await unlinkAsync(...) rejects outside any try: the handler
                 \* stops here and the error handler answers
                 [status |-> 500, materials |-> materials]
            ELSE LET upd == [material EXCEPT
                                !.file = IF file # None THEN file ELSE @,
                                !.title = IF body.title \in {None, Falsy}
                                          THEN @ ELSE body.title]
                 IN IF ~preSaveUploader(upd)
                    THEN [status |-> 500, materials |-> materials]
                    ELSE [status |-> 200,
                          materials |-> (materials \ {material}) \cup {upd}]

updateMaterial(caller, id, body, file, unlinkFails) ==
    /\ LET r == updateMaterialResult(caller, id, body, file, unlinkFails)
       IN /\ materials' = r.materials
          /\ resp' = [op |-> "updateMaterial", caller |-> caller, id |-> id,
                      body |-> body, file |-> file, unlinkFails |-> unlinkFails,
                      status |-> r.status]
    /\ UNCHANGED <<users, batches, attendance, payments, assignments,
                 uploads, inflight>>

-----------------------------------------------------------------------------
(* Deleting a batch.  batch.remove() runs the pre('remove') hook, whose     *)
(* three deleteMany calls run in order before the batch document goes;     *)
(* dbFailsAt names the deleteMany that rejects (0: none does), after which *)
(* the hook throws and the removal is abandoned.  The response record     *)
(* notes how many children the batch had when the request arrived.         *)

cascade_AssignmentsForgotten(b, dbFailsAt) ==
    [attendance |-> IF dbFailsAt = 1 THEN attendance
                    ELSE {r \in attendance : r.batch # b},
     materials |-> IF dbFailsAt \in {1, 2} THEN materials
                   ELSE {m \in materials : m.batch # b},
     assignments |-> assignments,
     done |-> dbFailsAt = 0]

\* batchSchema.pre('remove')
cascade(b, dbFailsAt) ==
    [attendance |-> IF dbFailsAt = 1 THEN attendance
                    ELSE {r \in attendance : r.batch # b},
     materials |-> IF dbFailsAt \in {1, 2} THEN materials
                   ELSE {m \in materials : m.batch # b},
     assignments |-> IF dbFailsAt \in {1, 2, 3} THEN assignments
                     ELSE {a \in assignments : a.batch # b},
     done |-> dbFailsAt = 0]

\* DELETE /api/batches/:id
deleteBatchResult(caller, b, dbFailsAt) ==
    LET same == [batches |-> batches, attendance |-> attendance,
                 materials |-> materials, assignments |-> assignments]
    IN IF ~authorize({"admin", "teacher"}, caller)
       THEN [status |-> 403, store |-> same]
       ELSE IF ~BatchExists(b)
       THEN [status |-> 404, store |-> same]
       ELSE IF batches[b].teacher # caller /\ role(caller) # "admin"
       THEN [status |-> 403, store |-> same]
       ELSE LET c == cascade(b, dbFailsAt)
            IN [status |-> IF c.done THEN 200 ELSE 500,
                store |-> [batches |-> IF c.done THEN [batches EXCEPT ![b] = NoBatch]
                                       ELSE batches,
                           attendance |-> c.attendance,
                           materials |-> c.materials,
                           assignments |-> c.assignments]]

deleteBatch(caller, b, dbFailsAt) ==
    /\ LET r == deleteBatchResult(caller, b, dbFailsAt)
       IN /\ batches' = r.store.batches
          /\ attendance' = r.store.attendance
          /\ materials' = r.store.materials
          /\ assignments' = r.store.assignments
          /\ resp' = [op |-> "deleteBatch", caller |-> caller, batch |-> b,
                      status |-> r.status,
                      children |->
                          [attendance |-> Cardinality({x \in attendance : x.batch = b}),
                           materials |-> Cardinality({x \in materials : x.batch = b}),
                           assignments |-> Cardinality({x \in assignments : x.batch = b})]]
    /\ UNCHANGED <<users, payments,
                 uploads, inflight>>

-----------------------------------------------------------------------------
(* Specification of the batch registry: batches are created with an empty  *)
(* roster and then changed by add-student and remove-student only.         *)

NoResp == [op |-> "init", caller |-> None, batch |-> None, student |-> None, status |-> 0]

InitStore ==
    /\ users = UserIds \ {"s3"}
    /\ attendance = {}
    /\ payments = {}
    /\ assignments = {}
    /\ materials = {}
    /\ uploads = {}
    /\ inflight = {}
    /\ resp = NoResp

Init ==
    /\ InitStore
    /\ batches = [b \in BatchIds |-> NoBatch]

BatchCallers == {"a1", "t1", "t2", "s1"}
RosterInputs == {"s1", "s2", "s3", None}

NextCreateBatch ==
    \E caller \in BatchCallers, b \in BatchIds, t \in Teachers, m \in 1..MaxCap, f \in Fees :
        createBatch(caller, b, [teacher |-> t, maxStudents |-> m, fee |-> f])

NextAddStudent ==
    \E caller \in BatchCallers, b \in BatchIds, s \in RosterInputs :
        addStudentToBatch(caller, b, s)

NextRemoveStudent ==
    \E caller \in BatchCallers, b \in BatchIds, s \in RosterInputs \ {None} :
        removeStudentFromBatch(caller, b, s)

Next == NextCreateBatch \/ NextAddStudent \/ NextRemoveStudent

Spec == Init /\ [][Next]_vars

-----------------------------------------------------------------------------
(* Specification of the attendance ledger: batch b1 exists, taught by t1,  *)
(* with s1 enrolled; its teacher marks attendance while the roster changes.*)

MaxAttendance == 2
MaxEntries == 2

InitAttendance ==
    /\ InitStore
    /\ batches = [b \in BatchIds |->
                    IF b = "b1"
                    THEN [exists |-> TRUE, teacher |-> "t1", students |-> <<"s1">>,
                          maxStudents |-> 2, fee |-> 5]
                    ELSE NoBatch]

LedgerDates == {At(0, TenAM), At(0, LastSecondMs), At(1, TenAM)}
LedgerStatuses == {"present", "absent"}
LedgerCallers == {"t1"}
LedgerStudents == {"s1", "s2"}

LedgerUpdates ==
    {[status |-> st, date |-> NoDate] : st \in LedgerStatuses}
        \cup {[status |-> None, date |-> d] : d \in LedgerDates}

Entries == [student : LedgerStudents, status : LedgerStatuses]
EntryLists == UNION {[1..n -> Entries] : n \in 1..MaxEntries}

NextCreateAttendance ==
    \E caller \in LedgerCallers, s \in LedgerStudents, b \in BatchIds,
       d \in LedgerDates, st \in LedgerStatuses :
        /\ createAttendance(caller, [student |-> s, batch |-> b, date |-> d, status |-> st])
        /\ Cardinality(attendance') <= MaxAttendance

NextUpdateAttendance ==
    \E caller \in LedgerCallers, rec \in attendance, body \in LedgerUpdates :
        updateAttendance(caller, rec, body)

NextDeleteAttendance ==
    \E caller \in LedgerCallers, rec \in attendance : deleteAttendance(caller, rec)

NextMarkMultiple ==
    \E caller \in LedgerCallers, d \in LedgerDates, entries \in EntryLists :
        /\ markMultipleAttendances(caller, "b1", d, entries)
        /\ Cardinality(attendance') <= MaxAttendance

NextSummary ==
    \E caller \in LedgerCallers \cup LedgerStudents, s \in LedgerStudents :
        getStudentAttendanceSummary(caller, s, "b1")

NextEnrol ==
    \E s \in LedgerStudents : addStudentToBatch("t1", "b1", s)

NextUnenrol ==
    \E s \in LedgerStudents : removeStudentFromBatch("t1", "b1", s)

NextAttendance ==
    \/ NextCreateAttendance
    \/ NextUpdateAttendance
    \/ NextDeleteAttendance
    \/ NextMarkMultiple
    \/ NextSummary
    \/ NextEnrol
    \/ NextUnenrol

SpecAttendance == InitAttendance /\ [][NextAttendance]_vars

\* the enrolment precondition alone: attendance is created while students
\* are enrolled in and removed from the batch
NextEnrolment ==
    \/ NextCreateAttendance
    \/ NextEnrol
    \/ NextUnenrol

SpecEnrolment == InitAttendance /\ [][NextEnrolment]_vars

-----------------------------------------------------------------------------
(* Specification of attendance ownership: several teachers and an admin    *)
(* mark, re-mark, read, update and delete the attendance of student s1.    *)

MarkerCallers == {"t1", "t2", "a1", "s1"}
MarkerDates == {At(0, TenAM), At(1, TenAM)}

\* stands for the id of no stored record
MissingRecord ==
    [student |-> None, batch |-> None, date |-> NoDate, status |-> None,
     markedBy |-> None, firstMarkedBy |-> None]

MarkerCreate ==
    \E caller \in MarkerCallers, d \in MarkerDates, st \in LedgerStatuses :
        createAttendance(caller, [student |-> "s1", batch |-> "b1", date |-> d, status |-> st])

MarkerUpdate ==
    \E caller \in MarkerCallers, rec \in attendance \cup {MissingRecord},
       st \in LedgerStatuses :
        updateAttendance(caller, rec, [status |-> st, date |-> NoDate])

MarkerDelete ==
    \E caller \in MarkerCallers, rec \in attendance \cup {MissingRecord} :
        deleteAttendance(caller, rec)

MarkerRemark ==
    \E caller \in MarkerCallers, d \in MarkerDates, st \in LedgerStatuses :
        markMultipleAttendances(caller, "b1", d, <<[student |-> "s1", status |-> st]>>)

MarkerRead ==
    \E rec \in attendance \cup {MissingRecord} : getAttendance(None, rec)

NextMarker == MarkerCreate \/ MarkerUpdate \/ MarkerDelete \/ MarkerRemark \/ MarkerRead

SpecMarker == InitAttendance /\ [][NextMarker]_vars

-----------------------------------------------------------------------------
(* Specification of the payment ledger: batch b1 exists with s1 enrolled;  *)
(* payments are recorded, updated and deleted while the batch fee changes. *)

Months == {"2024-01", "2024-02"}
Amounts == {0, 3}
PaymentCallers == {"a1", "t1"}
PaymentStudents == {"s1", "s2"}

MissingPayment ==
    [student |-> None, batch |-> None, month |-> None, amount |-> 0,
     paymentMethod |-> None, status |-> None, receiptNumber |-> NoReceipt,
     recordedBy |-> None]

CreateBodies ==
    {[student |-> s, batch |-> "b1", month |-> m, hasAmount |-> h, amount |-> a,
      paymentMethod |-> pm] :
        s \in PaymentStudents, m \in Months, h \in BOOLEAN, a \in Amounts,
        pm \in {"cash", "online"}}

KeyParts ==
    {[student |-> None, batch |-> None, month |-> None],
     [student |-> "s2", batch |-> None, month |-> None],
     [student |-> None, batch |-> "b2", month |-> None],
     [student |-> None, batch |-> None, month |-> Falsy]}
        \cup {[student |-> None, batch |-> None, month |-> m] : m \in Months}

ValueParts ==
    {[hasAmount |-> FALSE, amount |-> 0, status |-> None],
     [hasAmount |-> TRUE, amount |-> 3, status |-> None],
     [hasAmount |-> FALSE, amount |-> 0, status |-> "pending"]}

UpdateBodies ==
    {[student |-> k.student, batch |-> k.batch, month |-> k.month,
      hasAmount |-> v.hasAmount, amount |-> v.amount, status |-> v.status,
      namesReceipt |-> FALSE, receiptNumber |-> NoReceipt] :
        k \in KeyParts, v \in ValueParts}

NextCreatePayment ==
    \E body \in {x \in CreateBodies : x.hasAmount \/ x.amount = 0} :
        createPayment("a1", body)

NextUpdatePayment ==
    \E caller \in PaymentCallers, rec \in payments \cup {MissingPayment},
       body \in UpdateBodies :
        updatePayment(caller, rec, body)

NextDeletePayment ==
    \E caller \in PaymentCallers, rec \in payments \cup {MissingPayment} :
        deletePayment(caller, rec)

NextUpdateFee ==
    \E caller \in PaymentCallers, f \in Fees : updateBatch(caller, "b1", [fee |-> f])

NextPayment == NextCreatePayment \/ NextUpdatePayment \/ NextDeletePayment \/ NextUpdateFee

SpecPayment == InitAttendance /\ [][NextPayment]_vars

-----------------------------------------------------------------------------
(* Specification of the submission workflow: batch b1, taught by t1, has   *)
(* s1 and s2 enrolled; its assignment is created, re-marked, submitted to, *)
(* graded and read.  "as2" is the id of no stored assignment.              *)

InitSubmission ==
    /\ InitStore
    /\ batches = [b \in BatchIds |->
                    IF b = "b1"
                    THEN [exists |-> TRUE, teacher |-> "t1", students |-> <<"s1", "s2">>,
                          maxStudents |-> 2, fee |-> 5]
                    ELSE NoBatch]

DueDates == {1}
Times == {1, 2}
Files == {"fA", "fB"}
TotalMarks == {1, 2}
Marks == {NoMarks, 2, 3}
SubmissionCallers == {"s1", "s2", "s3", "t1"}
GradeCallers == {"t1", "t2", "s1"}
Readers == {"s1", "t1", "a1"}

NextCreateAssignment ==
    \E caller \in {"t1", "t2"}, d \in DueDates, t \in {0, 2} :
        createAssignment(caller, "as1", [batch |-> "b1", dueDate |-> d, totalMarks |-> t])

NextUpdateAssignment ==
    \E caller \in {"t1", "t2"}, id \in AssignmentIds, t \in TotalMarks :
        updateAssignment(caller, id, [totalMarks |-> t])

NextSubmit ==
    \E caller \in SubmissionCallers, id \in AssignmentIds, now \in Times, files \in Files :
        submitAssignment(caller, id, now, files)

NextGrade ==
    \E caller \in GradeCallers, id \in AssignmentIds, s \in StudentUsers, m \in Marks :
        gradeSubmission(caller, id, s, m, None)

NextGetAssignment ==
    \E requester \in Readers, id \in AssignmentIds : getAssignment(requester, id)

NextSubmission ==
    \/ NextCreateAssignment
    \/ NextUpdateAssignment
    \/ NextSubmit
    \/ NextGrade
    \/ NextGetAssignment

SpecSubmission == InitSubmission /\ [][NextSubmission]_vars

-----------------------------------------------------------------------------
(* Interleaved requests.  A handler runs to its next await as one step;    *)
(* between its reads and its write other requests may run.  inflight holds *)
(* the requests that have passed their checks and not yet written; n tells *)
(* apart two requests with the same content.                               *)

RequestNumbers == {1, 2}

\* createPayment up to Payment.create: the checks pass and the amount is set
createPaymentChecks(caller, body) ==
    /\ authorize({"admin", "teacher"}, caller)
    /\ findPayments(payments, body.student, body.batch, body.month) = {}
    /\ BatchExists(body.batch)
    /\ includes(batches[body.batch].students, body.student)

startCreatePayment(n, caller, body) ==
    /\ \A r \in inflight : r.n # n
    /\ createPaymentChecks(caller, body)
    /\ inflight' = inflight \cup
          {[n |-> n, op |-> "createPayment", caller |-> caller,
            body |-> [body EXCEPT !.amount = IF ~body.hasAmount \/ body.amount = 0
                                             THEN batches[body.batch].fee
                                             ELSE body.amount]]}
    /\ UNCHANGED <<users, batches, attendance, payments, assignments, materials,
                   uploads, resp>>

\* Payment.create(req.body) of a request that passed its checks
finishCreatePaymentResult(req) ==
    LET doc == preSaveReceipt(payments,
                   [student |-> req.body.student, batch |-> req.body.batch,
                    month |-> req.body.month, amount |-> req.body.amount,
                    paymentMethod |-> req.body.paymentMethod,
                    status |-> IF req.body.paymentMethod # "online"
                               THEN "completed" ELSE "pending",
                    receiptNumber |-> NoReceipt, recordedBy |-> req.caller])
    IN IF ~paymentValid(doc)
       THEN [status |-> 400, payments |-> payments]   \* ValidationError
       ELSE IF paymentIndexClash(payments, doc)
       THEN [status |-> 400, payments |-> payments]   \* E11000
       ELSE [status |-> 201, payments |-> payments \cup {doc}]

finishCreatePayment(req) ==
    /\ req \in inflight
    /\ req.op = "createPayment"
    /\ LET r == finishCreatePaymentResult(req)
       IN /\ payments' = r.payments
          /\ resp' = [op |-> "createPayment", caller |-> req.caller,
                      body |-> req.body, status |-> r.status]
    /\ inflight' = inflight \ {req}
    /\ UNCHANGED <<users, batches, attendance, assignments, materials, uploads>>

\* createAttendance up to Attendance.create: the checks pass
createAttendanceChecks(caller, body) ==
    /\ authorize({"admin", "teacher"}, caller)
    /\ findAttendances(attendance, body.student, body.batch, body.date) = {}
    /\ BatchExists(body.batch)
    /\ includes(batches[body.batch].students, body.student)

startCreateAttendance(n, caller, body) ==
    /\ \A r \in inflight : r.n # n
    /\ createAttendanceChecks(caller, body)
    /\ inflight' = inflight \cup
          {[n |-> n, op |-> "createAttendance", caller |-> caller, body |-> body]}
    /\ UNCHANGED <<users, batches, attendance, payments, assignments, materials,
                   uploads, resp>>

\* Attendance.create(req.body) of a request that passed its checks
finishCreateAttendanceResult(req) ==
    LET doc == [student |-> req.body.student, batch |-> req.body.batch,
                date |-> req.body.date, status |-> req.body.status,
                markedBy |-> req.caller, firstMarkedBy |-> req.caller]
    IN IF ~preSaveEnrolled(doc)
       THEN [status |-> 500, attendance |-> attendance]
       ELSE IF attendanceIndexClash(attendance, doc)
       THEN [status |-> 400, attendance |-> attendance]   \* E11000
       ELSE [status |-> 201, attendance |-> attendance \cup {doc}]

finishCreateAttendance(req) ==
    /\ req \in inflight
    /\ req.op = "createAttendance"
    /\ LET r == finishCreateAttendanceResult(req)
       IN /\ attendance' = r.attendance
          /\ resp' = [op |-> "createAttendance", caller |-> req.caller,
                      body |-> req.body, status |-> r.status]
    /\ inflight' = inflight \ {req}
    /\ UNCHANGED <<users, batches, payments, assignments, materials, uploads>>

\* addStudentToBatch up to batch.save(): the checks pass on the batch it read
addStudentChecks(caller, b, studentId) ==
    /\ authorize({"admin", "teacher"}, caller)
    /\ studentId # None
    /\ BatchExists(b)
    /\ studentId \in users
    /\ ~includes(batches[b].students, studentId)
    /\ Len(batches[b].students) < batches[b].maxStudents

startAddStudent(n, caller, b, studentId) ==
    /\ \A r \in inflight : r.n # n
    /\ addStudentChecks(caller, b, studentId)
    /\ inflight' = inflight \cup
          {[n |-> n, op |-> "addStudentToBatch", caller |-> caller, batch |-> b,
            studentId |-> studentId, students |-> batches[b].students]}
    /\ UNCHANGED <<users, batches, attendance, payments, assignments, materials,
                   uploads, resp>>

\* batch.students.push(studentId); await batch.save().  The sources do not
\* say how save() writes a pushed array: as the push of the new element onto
\* the stored array ("push"), or as the whole array the handler holds ("set").
savedStudents(req, stored, save) ==
    IF save = "push" THEN Append(stored, req.studentId)
    ELSE Append(req.students, req.studentId)

finishAddStudent(req, save) ==
    /\ req \in inflight
    /\ req.op = "addStudentToBatch"
    /\ BatchExists(req.batch)
    /\ batches' = [batches EXCEPT ![req.batch].students =
                        savedStudents(req, @, save)]
    /\ resp' = [op |-> "addStudentToBatch", caller |-> req.caller,
                batch |-> req.batch, student |-> req.studentId, status |-> 200]
    /\ inflight' = inflight \ {req}
    /\ UNCHANGED <<users, attendance, payments, assignments, materials, uploads>>

-----------------------------------------------------------------------------
(* The routes that take files.  Each runs protect, authorize(...), then    *)
(* handleFileUpload, then the handler.  handleFileUpload is multer with    *)
(* diskStorage: it writes the file parts of the request under              *)
(* FILE_UPLOAD_PATH before it calls next.  uploads is the set of files it  *)
(* has written; files = None is a request without file parts.              *)

handleFileUpload(files) == IF files = None THEN uploads ELSE uploads \cup {files}

\* router.route('/').post(protect, authorize('admin', 'teacher'),
\*                        handleFileUpload, createAssignment)
routePostAssignment(caller, id, body, files) ==
    /\ findAssignment(id) = {}
    /\ LET r == createAssignmentResult(caller, id, body)
       IN /\ assignments' = r.assignments
          /\ uploads' = IF authorize({"admin", "teacher"}, caller)
                        THEN handleFileUpload(files) ELSE uploads
          /\ resp' = [op |-> "createAssignment", caller |-> caller, id |-> id,
                      body |-> body, files |-> files, status |-> r.status]
    /\ UNCHANGED <<users, batches, attendance, payments, materials, inflight>>

\* router.route('/:id/submit').post(protect, authorize('student'),
\*                                  handleFileUpload, submitAssignment)
routeSubmitAssignment(caller, id, now, files) ==
    /\ LET r == submitAssignmentResult(caller, id, now, files)
       IN /\ assignments' = r.assignments
          /\ uploads' = IF authorize({"student"}, caller)
                        THEN handleFileUpload(files) ELSE uploads
          /\ resp' = [op |-> "submitAssignment", caller |-> caller, id |-> id,
                      now |-> now, files |-> files, status |-> r.status]
    /\ UNCHANGED <<users, batches, attendance, payments, materials, inflight>>

\* router.route('/:id').put(protect, authorize('admin', 'teacher'),
\*                          handleFileUpload, updateMaterial)
routePutMaterial(caller, id, body, file, unlinkFails) ==
    /\ LET r == updateMaterialResult(caller, id, body, file, unlinkFails)
       IN /\ materials' = r.materials
          /\ uploads' = IF authorize({"admin", "teacher"}, caller)
                        THEN handleFileUpload(file) ELSE uploads
          /\ resp' = [op |-> "updateMaterial", caller |-> caller, id |-> id,
                      body |-> body, file |-> file, unlinkFails |-> unlinkFails,
                      status |-> r.status]
    /\ UNCHANGED <<users, batches, attendance, payments, assignments, inflight>>

-----------------------------------------------------------------------------
(* User accounts.  Every route of the users router runs protect and        *)
(* authorize('admin') first.                                               *)

\* protect: the token's user is looked up; a user that no longer exists is
\* answered 404
protect(caller) == caller \in users

\* userSchema.pre('remove'): Batch.deleteMany({teacher: this._id})
preRemoveUser(id) ==
    [b \in BatchIds |->
        IF BatchExists(b) /\ batches[b].teacher = id THEN NoBatch ELSE batches[b]]

\* User.findByIdAndDelete(id) is a query: the document hook pre('remove')
\* does not run for it
findByIdAndDelete(id) == [users |-> users \ {id}, batches |-> batches]

\* POST /api/users; the model's user id stands for the unique email
createUserResult(caller, id) ==
    IF ~protect(caller)
    THEN [status |-> 404, users |-> users]
    ELSE IF ~authorize({"admin"}, caller)
    THEN [status |-> 403, users |-> users]
    ELSE IF id \in users
    THEN [status |-> 400, users |-> users]   \* E11000
    ELSE [status |-> 201, users |-> users \cup {id}]

createUser(caller, id) ==
    /\ LET r == createUserResult(caller, id)
       IN /\ users' = r.users
          /\ resp' = [op |-> "createUser", caller |-> caller, id |-> id,
                      status |-> r.status]
    /\ UNCHANGED <<batches, attendance, payments, assignments, materials, uploads,
                   inflight>>

deleteUserResult_Cascade(caller, id) ==
    IF ~protect(caller)
    THEN [status |-> 404, users |-> users, batches |-> batches]
    ELSE IF ~authorize({"admin"}, caller)
    THEN [status |-> 403, users |-> users, batches |-> batches]
    ELSE IF id = caller
    THEN [status |-> 400, users |-> users, batches |-> batches]
    ELSE IF id \notin users
    THEN [status |-> 404, users |-> users, batches |-> batches]
    ELSE [status |-> 200, users |-> users \ {id}, batches |-> preRemoveUser(id)]

\* DELETE /api/users/:id
deleteUserResult(caller, id) ==
    IF ~protect(caller)
    THEN [status |-> 404, users |-> users, batches |-> batches]
    ELSE IF ~authorize({"admin"}, caller)
    THEN [status |-> 403, users |-> users, batches |-> batches]
    ELSE IF id = caller
    THEN [status |-> 400, users |-> users, batches |-> batches]
    ELSE IF id \notin users
    THEN [status |-> 404, users |-> users, batches |-> batches]
    ELSE LET r == findByIdAndDelete(id)
         IN [status |-> 200, users |-> r.users, batches |-> r.batches]

deleteUser(caller, id) ==
    /\ LET r == deleteUserResult(caller, id)
       IN /\ users' = r.users
          /\ batches' = r.batches
          /\ resp' = [op |-> "deleteUser", caller |-> caller, id |-> id,
                      status |-> r.status]
    /\ UNCHANGED <<attendance, payments, assignments, materials, uploads, inflight>>

-----------------------------------------------------------------------------
(* Specification of batch ownership and deletion: b1 is taught by t1 and   *)
(* b2 by t2; attendance, materials and assignments are added to them, the  *)
(* batches are listed, changed and deleted.                                *)

InitOwnership ==
    /\ InitStore
    /\ batches = [b \in BatchIds |->
                    [exists |-> TRUE, teacher |-> IF b = "b1" THEN "t1" ELSE "t2",
                     students |-> IF b = "b1" THEN <<"s1">> ELSE <<>>,
                     maxStudents |-> 2, fee |-> 5]]

OwnershipCallers == {"a1", "t1", "t2"}
DbFailures == 0..3

OwnMark ==
    \E b \in BatchIds :
        createAttendance("t1", [student |-> "s1", batch |-> b, date |-> At(0, TenAM),
                                status |-> "present"])

OwnUpload ==
    \E caller \in OwnershipCallers, id \in MaterialIds, b \in BatchIds,
       file \in FileKinds \cup {None} :
        uploadMaterial(caller, id, [batch |-> b, title |-> "intro"], file)

OwnAssign ==
    \E caller \in {"t1", "t2"}, b \in BatchIds, d \in DueDates :
        createAssignment(caller, "as1", [batch |-> b, dueDate |-> d, totalMarks |-> 2])

OwnUpdate ==
    \E caller \in OwnershipCallers, b \in BatchIds :
        updateBatch(caller, b, [fee |-> 7])

OwnDelete ==
    \E caller \in OwnershipCallers, b \in BatchIds, dbFailsAt \in DbFailures :
        deleteBatch(caller, b, dbFailsAt)

OwnAdd ==
    \E caller \in OwnershipCallers, b \in BatchIds :
        addStudentToBatch(caller, b, "s1")

OwnRemove ==
    \E caller \in OwnershipCallers, b \in BatchIds :
        removeStudentFromBatch(caller, b, "s1")

OwnList ==
    \E requester \in OwnershipCallers, advanced \in SUBSET BatchIds :
        getBatches(requester, advanced)

NextOwnership ==
    \/ OwnMark
    \/ OwnUpload
    \/ OwnAssign
    \/ OwnUpdate
    \/ OwnDelete
    \/ OwnAdd
    \/ OwnRemove
    \/ OwnList

SpecOwnership == InitOwnership /\ [][NextOwnership]_vars

(***************************************************************************)
(* Specification of material updates: b1 is taught by t1 and b2 by t2; the *)
(* teachers upload materials, and teachers and an admin update them with   *)
(* and without a replacement file, whose predecessor's deletion may fail.  *)
(***************************************************************************)
Titles == {None, "notes"}
Replacements == {None, "doc"}

NextMaterial ==
    \/ \E caller \in Teachers, id \in MaterialIds, b \in BatchIds :
            uploadMaterial(caller, id, [batch |-> b, title |-> "intro"], "pdf")
    \/ \E caller \in OwnershipCallers, id \in MaterialIds, t \in Titles,
            file \in Replacements, unlinkFails \in BOOLEAN :
            updateMaterial(caller, id, [title |-> t], file, unlinkFails)

SpecMaterial == InitOwnership /\ [][NextMaterial]_vars

(***************************************************************************)
(* Specification of the file routes: b1 is taught by t1 with s1 enrolled   *)
(* and b2 by t2; assignments are created and submitted and materials are   *)
(* uploaded and updated through their routes, with and without files, and  *)
(* batches are deleted.                                                    *)
(***************************************************************************)
RouteCallers == {"a1", "t1", "t2", "s1"}
RouteFiles == {None, "fA"}

NextUploads ==
    \/ \E caller \in RouteCallers, b \in BatchIds, d \in DueDates, files \in RouteFiles :
            routePostAssignment(caller, "as1",
            [batch |-> b, dueDate |-> d, totalMarks |-> 2], files)
    \/ \E caller \in RouteCallers, now \in Times, files \in RouteFiles :
            routeSubmitAssignment(caller, "as1", now, files)
    \/ \E caller \in Teachers, b \in BatchIds :
            uploadMaterial(caller, "m1", [batch |-> b, title |-> "intro"], "pdf")
    \/ \E caller \in RouteCallers, id \in MaterialIds, file \in Replacements :
            routePutMaterial(caller, id, [title |-> "notes"], file, FALSE)
    \/ \E caller \in RouteCallers, b \in BatchIds : deleteBatch(caller, b, 0)

SpecUploads == InitOwnership /\ [][NextUploads]_vars

(***************************************************************************)
(* Specification of racing creations: batch b1 with s1 and s2 enrolled;    *)
(* up to two requests at a time create payments and attendance records     *)
(* for s1, each passing its checks before it writes.                       *)
(***************************************************************************)
RaceCallers == {"a1", "t1"}
RaceDates == {At(0, TenAM), At(0, LastSecondMs)}

NextRace ==
    \/ \E n \in RequestNumbers, caller \in RaceCallers, h \in BOOLEAN :
            startCreatePayment(n, caller,
            [student |-> "s1", batch |-> "b1", month |-> "2024-01", hasAmount |-> h,
            amount |-> IF h THEN 3 ELSE 0, paymentMethod |-> "cash"])
    \/ \E req \in inflight : finishCreatePayment(req)
    \/ \E n \in RequestNumbers, caller \in RaceCallers, d \in RaceDates,
            st \in {"present", "absent"} :
            startCreateAttendance(n, caller,
            [student |-> "s1", batch |-> "b1", date |-> d, status |-> st])
    \/ \E req \in inflight : finishCreateAttendance(req)

SpecRace == InitSubmission /\ [][NextRace]_vars

(***************************************************************************)
(* Specification of racing enrolments: b1 (maxStudents 2) has s1 enrolled; *)
(* up to two add-student requests at a time read the roster, pass their    *)
(* checks and then save; students are also removed.                        *)
(***************************************************************************)
SaveModes == {"push", "set"}

NextRoster ==
    \/ \E n \in RequestNumbers, caller \in {"a1", "t1"}, s \in StudentUsers \cup {"t2"} :
            startAddStudent(n, caller, "b1", s)
    \/ \E req \in inflight, save \in SaveModes : finishAddStudent(req, save)
    \/ \E s \in StudentUsers : removeStudentFromBatch("a1", "b1", s)

SpecRoster == InitOwnership /\ [][NextRoster]_vars

(***************************************************************************)
(* Specification of the user accounts: b1 is taught by t1 and b2 by t2;    *)
(* users are created and deleted.                                          *)
(***************************************************************************)
UserCallers == {"a1", "t1"}

NextUsers ==
    \/ \E caller \in UserCallers, id \in UserIds : createUser(caller, id)
    \/ \E caller \in UserCallers, id \in UserIds : deleteUser(caller, id)

SpecUsers == InitOwnership /\ [][NextUsers]_vars

(***************************************************************************)
(* Specification of late submission: teacher t1 creates assignments of     *)
(* batch b1 with allowLateSubmission: true in the request body, and the    *)
(* enrolled students submit before and after the due date.                 *)
(***************************************************************************)
NextLate ==
    \/ \E id \in AssignmentIds, d \in DueDates :
            createAssignment("t1", id, [batch |-> "b1", dueDate |-> d, totalMarks |-> 2,
            allowLateSubmission |-> TRUE])
    \/ \E caller \in StudentUsers, id \in AssignmentIds, now \in Times, files \in Files :
            submitAssignment(caller, id, now, files)

SpecLate == InitSubmission /\ [][NextLate]_vars

(***************************************************************************)
(* Specification of grading: teacher t1 creates assignment as1 of batch b1, *)
(* student s1 submits and resubmits, and the batch's teacher, an admin and *)
(* another teacher grade s1 and s2 with and without feedback.              *)
(***************************************************************************)
Feedbacks == {None, "good"}
Graders == {"t1", "t2", "a1"}

NextGrading ==
    \/ \E d \in DueDates :
            createAssignment("t1", "as1", [batch |-> "b1", dueDate |-> d, totalMarks |-> 2])
    \/ \E now \in Times, files \in Files : submitAssignment("s1", "as1", now, files)
    \/ \E caller \in Graders, id \in AssignmentIds, s \in StudentUsers, m \in Marks,
            f \in Feedbacks :
            gradeSubmission(caller, id, s, m, f)

SpecGrading == InitSubmission /\ [][NextGrading]_vars

(***************************************************************************)
(* Specification of the receipt numbers: batch b1 with s1 and s2 enrolled; *)
(* an admin creates, updates and deletes payments.  SpecLedger has the     *)
(* creations and deletions only.                                           *)
(***************************************************************************)
ReceiptBodies ==
    {[student |-> None, batch |-> None, month |-> None, hasAmount |-> FALSE,
      amount |-> 0, status |-> st, namesReceipt |-> n,
      receiptNumber |-> NoReceipt] :
        st \in {None, "pending", "completed"}, n \in BOOLEAN}

NextReceipt ==
    \/ \E m \in Months, pm \in {"cash", "online"} :
            createPayment("a1", [student |-> "s1", batch |-> "b1", month |-> m,
            hasAmount |-> FALSE, amount |-> 0,
            paymentMethod |-> pm])
    \/ \E rec \in payments, body \in ReceiptBodies : updatePayment("a1", rec, body)
    \/ \E rec \in payments : deletePayment("a1", rec)

SpecReceipt == InitSubmission /\ [][NextReceipt]_vars

NextLedger ==
    \/ \E s \in PaymentStudents, m \in Months :
            createPayment("a1", [student |-> s, batch |-> "b1", month |-> m,
            hasAmount |-> FALSE, amount |-> 0,
            paymentMethod |-> "cash"])
    \/ \E rec \in payments : deletePayment("a1", rec)

SpecLedger == InitSubmission /\ [][NextLedger]_vars

-----------------------------------------------------------------------------
(* Claims about the batch registry                                         *)

Roster(b) == batches[b].students
RosterSet(seq) == {seq[i] : i \in 1..Len(seq)}

RosterRequest(op) ==
    /\ resp'.op = op
    /\ authorize({"admin", "teacher"}, resp'.caller)
    /\ BatchExists(resp'.batch)

AddAccepted(b, s) ==
    /\ s \in users
    /\ ~includes(Roster(b), s)
    /\ Len(Roster(b)) < batches[b].maxStudents

RemoveStep ==
    RosterRequest("removeStudentFromBatch") =>
        LET b == resp'.batch
            s == resp'.student
        IN IF includes(Roster(b), s)
           THEN /\ resp'.status = 200
                /\ RosterSet(batches'[b].students) = RosterSet(Roster(b)) \ {s}
                /\ Len(batches'[b].students) = Len(Roster(b)) - 1
                /\ \A x \in BatchIds \ {b} : batches'[x] = batches[x]
           ELSE /\ resp'.status = 400
                /\ batches' = batches

AddStepWith(rejectStatus(_)) ==
    RosterRequest("addStudentToBatch") =>
        LET b == resp'.batch
            s == resp'.student
        IN IF AddAccepted(b, s)
           THEN /\ resp'.status = 200
                /\ batches'[b].students = Append(Roster(b), s)
           ELSE /\ resp'.status = rejectStatus(s)
                /\ batches' = batches

Always400(s) == 400
NotFoundOr400(s) == IF s # None /\ s \notin users THEN 404 ELSE 400

\* C2 as stated: every rejected add-student is a 400.
C2_AsStated == [][AddStepWith(Always400) /\ RemoveStep]_vars

\* C2 (amended): add-student succeeds exactly when the student exists, is not
\* enrolled and the roster is below maxStudents; otherwise the roster is
\* unchanged and the rejection is 404 for a student id of no user and 400 in
\* the other cases.  remove-student is rejected with 400 when the student is
\* not enrolled and otherwise removes exactly that student.
C2_AddRemoveOutcome == [][AddStepWith(NotFoundOr400) /\ RemoveStep]_vars

\* maxStudents = 1, the slot is taken by A and B has just been refused
C2_Witness ==
    /\ resp.op = "addStudentToBatch"
    /\ resp.status = 400
    /\ BatchExists(resp.batch)
    /\ batches[resp.batch].maxStudents = 1
    /\ Roster(resp.batch) = <<"s1">>
    /\ resp.student = "s2"

\* maxStudents = 1 and the remove of A has just freed the slot
C2_WitnessRemove ==
    /\ resp.op = "removeStudentFromBatch"
    /\ resp.status = 200
    /\ BatchExists(resp.batch)
    /\ batches[resp.batch].maxStudents = 1
    /\ Roster(resp.batch) = <<>>

-----------------------------------------------------------------------------
(* Claims about the attendance ledger                                      *)

RecordsOfDay(ledger, student, b, date) ==
    {r \in ledger : r.student = student /\ r.batch = b /\ DayOf(r.date) = DayOf(date)}

OnePerDay(ledger) ==
    \A r \in ledger : RecordsOfDay(ledger, r.student, r.batch, r.date) = {r}

Enrolled(b, student) ==
    b \in BatchIds /\ BatchExists(b) /\ student \in RosterSet(Roster(b))

\* C3: at most one Attendance record per student, batch and calendar day
\* after any sequence of attendance operations, and a createAttendance for a
\* (student, batch, day) that has a record is rejected, the ledger unchanged.
C3_OneRecordPerDay ==
    [][/\ OnePerDay(attendance')
       /\ (/\ resp'.op = "createAttendance"
           /\ RecordsOfDay(attendance, resp'.body.student, resp'.body.batch,
                           resp'.body.date) # {})
          => (resp'.status # 201 /\ attendance' = attendance)]_vars

\* C4: a createAttendance for a student outside the batch's roster is
\* rejected and creates no record, so a record that createAttendance stores
\* names a student enrolled at that moment; remove-student leaves the
\* attendance records as they are.
C4_EnrolledAtCreation ==
    [][/\ resp'.op = "createAttendance" =>
            /\ ~Enrolled(resp'.body.batch, resp'.body.student)
                  => (resp'.status # 201 /\ attendance' = attendance)
            /\ \A r \in attendance' \ attendance : Enrolled(r.batch, r.student)
       /\ resp'.op = "removeStudentFromBatch" => attendance' = attendance]_vars

\* a student with attendance on record has just been removed from the roster
C4_Witness ==
    /\ resp.op = "removeStudentFromBatch"
    /\ resp.status = 200
    /\ \E r \in attendance : r.student = resp.student /\ r.batch = resp.batch
    /\ ~Enrolled(resp.batch, resp.student)

NotEnrolledEntries(b, entries) ==
    Cardinality({i \in 1..Len(entries) : ~Enrolled(b, entries[i].student)})

\* C5: a bulk-mark by an authorized caller with N entries, K of them naming
\* students outside the roster, returns N-K results and K errors, keeps the
\* N-K writes and reports success = false exactly when K > 0.
C5_BulkMarkCounts ==
    (resp.op = "markMultipleAttendances" /\ resp.status = 200) =>
        LET N == Len(resp.entries)
            K == NotEnrolledEntries(resp.batch, resp.entries)
        IN /\ resp.results = N - K
           /\ resp.errors = K
           /\ resp.success = (K = 0)
           /\ \A i \in 1..N :
                 Enrolled(resp.batch, resp.entries[i].student) =>
                    RecordsOfDay(attendance, resp.entries[i].student, resp.batch,
                                 resp.date) # {}

SummaryAllowed(caller, studentId, b) ==
    /\ BatchExists(b)
    /\ role(caller) = "student" => (caller = studentId \/ caller = batches[b].teacher)

\* C6: the attendance summary reports total = the number of the student's
\* records in the batch and percentage = 100 * present / total rounded to the
\* nearest integer (0 when total = 0), within 0..100.
C6_SummaryPercentage ==
    (/\ resp.op = "getStudentAttendanceSummary"
     /\ SummaryAllowed(resp.caller, resp.student, resp.batch)) =>
        LET recs == {r \in attendance : r.student = resp.student /\ r.batch = resp.batch}
            total == Cardinality(recs)
            present == Cardinality({r \in recs : r.status = "present"})
        IN /\ resp.status = 200
           /\ resp.total = total
           /\ resp.percentage \in 0..100
           /\ total = 0 => resp.percentage = 0
           /\ total > 0 =>
                 /\ 2 * (100 * present - resp.percentage * total) <= total
                 /\ 2 * (resp.percentage * total - 100 * present) <= total

TouchesRecord ==
    /\ resp'.op \in {"getAttendance", "updateAttendance", "deleteAttendance"}
    /\ resp'.record \in attendance
    /\ resp'.caller # None

-----------------------------------------------------------------------------
(* Claims about the payment ledger                                         *)

OnePerMonth(ledger) ==
    \A p, q \in ledger :
        (p.student = q.student /\ p.batch = q.batch /\ p.month = q.month) => p = q

\* C8: after any sequence of createPayment, updatePayment and deletePayment
\* calls at most one Payment exists per (student, batch, month), and a
\* createPayment for a triple that has a record is rejected, the ledger
\* unchanged.
C8_OnePaymentPerMonth ==
    [][/\ OnePerMonth(payments')
       /\ (/\ resp'.op = "createPayment"
           /\ \E p \in payments : /\ p.student = resp'.body.student
                                  /\ p.batch = resp'.body.batch
                                  /\ p.month = resp'.body.month)
          => (resp'.status # 201 /\ payments' = payments)]_vars

\* a second payment for a month already paid has just been refused
C8_Witness ==
    /\ resp.op = "createPayment"
    /\ resp.status = 400
    /\ \E p \in payments : /\ p.student = resp.body.student
                           /\ p.batch = resp.body.batch
                           /\ p.month = resp.body.month

\* C9: a payment created without an amount stores the batch fee read at
\* creation, a later fee change does not alter it, and a supplied amount
\* >= 0 is stored as supplied.
C9_AmountDefault ==
    [][/\ (resp'.op = "createPayment" /\ resp'.status = 201) =>
            \E p \in payments' \ payments :
                /\ payments' = payments \cup {p}
                /\ p.amount = IF resp'.body.hasAmount
                              THEN resp'.body.amount
                              ELSE batches[resp'.body.batch].fee
       /\ resp'.op = "updateBatch" => payments' = payments]_vars

KeyNamed(body) == body.student # None \/ body.batch # None \/ body.month # None

-----------------------------------------------------------------------------
(* Claims about the submission workflow                                    *)

\* the status of the student's submission in a store of assignments
SubmissionStatus(store, id, s) ==
    IF \E a \in store : a.id = id /\ findIndex(a.submissions, s) # 0
    THEN LET a == CHOOSE x \in store : x.id = id
         IN a.submissions[findIndex(a.submissions, s)].status
    ELSE "none"

StatedTransition(from, to) ==
    \/ from = "none" /\ to \in {"submitted", "late"}
    \/ from \in {"submitted", "late"} /\ to = "resubmitted"
    \/ from # "none" /\ to = "graded"

\* C11: under submitAssignment and gradeSubmission calls the status of a
\* student's submission changes only none -> submitted, none -> late,
\* submitted -> resubmitted, late -> resubmitted and non-none -> graded.
C11_StatedTransitionsOnly ==
    [][resp'.op \in {"submitAssignment", "gradeSubmission"} =>
          \A id \in AssignmentIds, s \in StudentUsers :
              LET from == SubmissionStatus(assignments, id, s)
                  to == SubmissionStatus(assignments', id, s)
              IN from # to => StatedTransition(from, to)]_vars

TheAssignment(id) == CHOOSE a \in assignments : a.id = id

\* C12: a submitAssignment made after dueDate on an assignment that does not
\* allow late submission is rejected and leaves every assignment's
\* submissions exactly as they were.
C12_LateSubmissionRejected ==
    [][(/\ resp'.op = "submitAssignment"
        /\ findAssignment(resp'.id) # {}
        /\ resp'.now > TheAssignment(resp'.id).dueDate
        /\ ~allowLateSubmission(TheAssignment(resp'.id)))
          => (resp'.status # 200 /\ assignments' = assignments)]_vars

\* an enrolled student who has already submitted is refused after the due date
C12_Witness ==
    /\ resp.op = "submitAssignment"
    /\ resp.status = 400
    /\ findAssignment(resp.id) # {}
    /\ resp.now > TheAssignment(resp.id).dueDate
    /\ findIndex(TheAssignment(resp.id).submissions, resp.caller) # 0

OneEntryPerStudent(store) ==
    \A a \in store : \A i, j \in 1..Len(a.submissions) :
        a.submissions[i].student = a.submissions[j].student => i = j

MarksWithinTotal(store) ==
    \A a \in store : \A i \in 1..Len(a.submissions) :
        a.submissions[i].marksObtained <= a.totalMarks

\* C14: a gradeSubmission with marksObtained above the assignment's
\* totalMarks is rejected and leaves the submission unchanged, and no stored
\* submission ever has marksObtained above its assignment's totalMarks.
C14_MarksNeverExceedTotal ==
    [][/\ (/\ resp'.op = "gradeSubmission"
           /\ findAssignment(resp'.id) # {}
           /\ resp'.marksObtained > TheAssignment(resp'.id).totalMarks)
          => (resp'.status # 200 /\ assignments' = assignments)
       /\ MarksWithinTotal(assignments')]_vars

\* C15: a student who requests an assignment is returned only the
\* submissions whose student is the caller, a teacher or an admin is
\* returned every submission, and the read changes no stored submission.
C15_OwnSubmissionsOnly ==
    [][(resp'.op = "getAssignment" /\ findAssignment(resp'.id) # {})
          => /\ assignments' = assignments
             /\ role(resp'.caller) = "student"
                   => \A i \in 1..Len(resp'.submissions) :
                         resp'.submissions[i].student = resp'.caller
             /\ role(resp'.caller) \in {"teacher", "admin"}
                   => /\ resp'.status = 200
                      /\ resp'.submissions = TheAssignment(resp'.id).submissions]_vars

-----------------------------------------------------------------------------
(* Claims about batch deletion, ownership and listing                      *)

ChildrenOf(b, att, mat, asg) ==
    {r \in att : r.batch = b} \cup {m \in mat : m.batch = b}
        \cup {a \in asg : a.batch = b}

\* C16: after a successful deleteBatch of B no Attendance, Material or
\* Assignment record of B remains, and the children go before the batch
\* record: whatever the outcome, B's record is never gone while a child of B
\* is still stored.
C16_CascadeBeforeBatch ==
    [][resp'.op = "deleteBatch" =>
          /\ resp'.status = 200 =>
                /\ batches'[resp'.batch] = NoBatch
                /\ ChildrenOf(resp'.batch, attendance', materials', assignments') = {}
          /\ \A b \in BatchIds :
                batches'[b] = NoBatch
                    => ChildrenOf(b, attendance', materials', assignments') = {}]_vars

\* a batch with attendance, a material and an assignment has been deleted
C16_Witness ==
    /\ resp.op = "deleteBatch"
    /\ resp.status = 200
    /\ resp.children.attendance > 0
    /\ resp.children.materials > 0
    /\ resp.children.assignments > 0
    /\ batches[resp.batch] = NoBatch

\* C17: update, delete, add-student and remove-student on a batch take
\* effect only for the batch's teacher or an admin; any other caller is
\* refused with 403 and the batch is unchanged.
C17_OwnerOrAdminOnly ==
    [][(/\ resp'.op \in {"updateBatch", "deleteBatch", "addStudentToBatch",
                         "removeStudentFromBatch"}
        /\ BatchExists(resp'.batch)
        /\ batches[resp'.batch].teacher # resp'.caller
        /\ role(resp'.caller) # "admin")
          => (resp'.status = 403 /\ batches' = batches)]_vars

ExistingBatches == {b \in BatchIds : BatchExists(b)}

\* C18: the batch list returned to a teacher holds the batches the caller
\* teaches, the list returned to a student the batches whose students
\* include the caller, and an admin is returned all batches.
C18_ListFilteredByRole ==
    resp.op = "getBatches" =>
        /\ resp.status = 200
        /\ resp.data =
              IF role(resp.caller) = "teacher"
              THEN {b \in ExistingBatches : batches[b].teacher = resp.caller}
              ELSE IF role(resp.caller) = "student"
              THEN {b \in ExistingBatches : includes(batches[b].students, resp.caller)}
              ELSE ExistingBatches

\* C19: every Material record was uploaded by the user who was the teacher
\* of its batch when the record was created; an upload by any other caller
\* creates no Material record.
C19_UploaderIsBatchTeacher ==
    [][/\ \A m \in materials' : m.uploadedBy = m.teacherAtUpload
       /\ (/\ resp'.op = "uploadMaterial"
           /\ ~(/\ BatchExists(resp'.body.batch)
                /\ batches[resp'.body.batch].teacher = resp'.caller))
          => materials' = materials]_vars

\* beside a stored material, an admin's upload of an allowed file was refused
C19_Witness ==
    /\ resp.op = "uploadMaterial"
    /\ role(resp.caller) = "admin"
    /\ resp.file \in fileTypes
    /\ BatchExists(resp.body.batch)
    /\ resp.status = 500
    /\ \E m \in materials : m.batch = resp.body.batch

-----------------------------------------------------------------------------
(* Claims about the bulk-mark upsert                                       *)

\* the status of the last entry that names the student
LastStatusFor(entries, student) ==
    LET last == CHOOSE i \in 1..Len(entries) :
                    /\ entries[i].student = student
                    /\ \A j \in (i + 1)..Len(entries) : entries[j].student # student
    IN entries[last].status

\* C20: after a bulk-mark for (batch, date) by an authorized caller every
\* entry of an enrolled student has exactly one record for that student,
\* batch and day, with the status of the last entry given for the student;
\* running the same bulk-mark again leaves the ledger as it is.
C20_BulkMarkUpsert ==
    [][(resp'.op = "markMultipleAttendances" /\ resp'.status = 200) =>
          /\ \A i \in 1..Len(resp'.entries) :
                Enrolled(resp'.batch, resp'.entries[i].student) =>
                    \E r \in attendance' :
                        /\ RecordsOfDay(attendance', resp'.entries[i].student,
                                        resp'.batch, resp'.date) = {r}
                        /\ r.status = LastStatusFor(resp'.entries,
                                                    resp'.entries[i].student)
          /\ markLoop(resp'.entries, attendance', 0, 0, resp'.caller, resp'.batch,
                      resp'.date).attendance = attendance']_vars

(***************************************************************************)
(* Claims about receipt numbers                                            *)
(***************************************************************************)
HasReceipt(p) == p.receiptNumber # NoReceipt

\* C23: every completed payment has a receipt number, and an update of a
\* payment that has a receipt number leaves that number as it is.
C23_CompletedHasReceipt ==
    /\ \A p \in payments : p.status = "completed" => HasReceipt(p)
    /\ (resp.op = "updatePayment" /\ resp.status = 200
            /\ HasReceipt(resp.record))
        => \E p \in findPayments(payments, resp.record.student,
                                  resp.record.batch, resp.record.month) :
               p.receiptNumber = resp.record.receiptNumber

ReceiptsDistinct ==
    \A p, q \in payments :
        (HasReceipt(p) /\ p.receiptNumber = q.receiptNumber) => p = q

\* C28: after creations and deletions the stored receipt numbers are pairwise
\* distinct, and a creation by an admin for an enrolled student, a free
\* {student, batch, month} key and an accepted payment method is answered 201.
C28_ReceiptNeverClashes ==
    /\ []ReceiptsDistinct
    /\ [][(resp'.op = "createPayment" /\ resp'.caller = "a1"
              /\ findPayments(payments, resp'.body.student, resp'.body.batch,
                              resp'.body.month) = {}
              /\ includes(batches[resp'.body.batch].students,
                          resp'.body.student)
              /\ resp'.body.paymentMethod \in PaymentMethods)
           => resp'.status = 201]_vars

(***************************************************************************)
(* Claims about late submission and grading                                *)
(***************************************************************************)
\* C21: on an assignment created with allowLateSubmission: true, the first
\* submission of an enrolled student is accepted, with status late when made
\* after dueDate and with status submitted when made at or before dueDate.
C21_LateAcceptedWhenAllowed ==
    [][(/\ resp'.op = "submitAssignment"
        /\ findAssignment(resp'.id) # {}
        /\ includes(batches[TheAssignment(resp'.id).batch].students, resp'.caller)
        /\ SubmissionStatus(assignments, resp'.id, resp'.caller) = "none")
       => /\ resp'.status = 200
          /\ SubmissionStatus(assignments', resp'.id, resp'.caller) =
                IF resp'.now > TheAssignment(resp'.id).dueDate
                THEN "late" ELSE "submitted"]_vars

GradeAuthorized(caller, a) ==
    /\ authorize({"admin", "teacher"}, caller)
    /\ (batches[a.batch].teacher = caller \/ role(caller) = "admin")

\* C22: for an authorized grader of an active assignment, gradeSubmission for
\* a student without a submission answers 404 and changes nothing; for a
\* student with a submission in any status and marks the schema accepts it
\* answers 200 and the entry is graded with the request's marks, feedback
\* and grader; the same grading request repeated leaves the assignments as
\* they were after the first.
C22_GradeAnyState ==
    [][(/\ resp'.op = "gradeSubmission"
        /\ findAssignment(resp'.id) # {}
        /\ TheAssignment(resp'.id).isActive
        /\ GradeAuthorized(resp'.caller, TheAssignment(resp'.id)))
       => LET a == TheAssignment(resp'.id)
              i == findIndex(a.submissions, resp'.student)
          IN /\ i = 0 => (resp'.status = 404 /\ assignments' = assignments)
             /\ (i # 0 /\ marksValid(a, resp'.marksObtained))
                => /\ resp'.status = 200
                   /\ \E b \in assignments' :
                        /\ b.id = a.id
                        /\ b.submissions[i].status = "graded"
                        /\ b.submissions[i].marksObtained = resp'.marksObtained
                        /\ b.submissions[i].feedback = resp'.feedback
                        /\ b.submissions[i].gradedBy = resp'.caller
             /\ (/\ resp.op = "gradeSubmission"
                 /\ resp.status = 200
                 /\ [resp' EXCEPT !.status = 200] = resp)
                => (resp'.status = 200 /\ assignments' = assignments)]_vars

C22_Witness ==
    /\ resp.op = "gradeSubmission"
    /\ resp.status = 200
    /\ resp.marksObtained = 2
    /\ resp.feedback = "good"
    /\ \E a \in findAssignment(resp.id) :
        LET e == a.submissions[findIndex(a.submissions, resp.student)]
        IN e.status = "graded" /\ e.marksObtained = 2 /\ e.feedback = "good"
              /\ e.gradedBy = resp.caller /\ e.files = "fB"

\* C30: a submission has marks and a grader exactly when its status is graded.
C30_GradingDataOnlyWhenGraded ==
    \A a \in assignments : \A i \in 1..Len(a.submissions) :
        LET e == a.submissions[i]
        IN /\ e.gradedBy # None <=> e.status = "graded"
           /\ e.marksObtained # NoMarks => e.status = "graded"

(***************************************************************************)
(* Claims about user deletion                                              *)
(***************************************************************************)
\* C24: no batch remains whose teacher is a user that no longer exists: a
\* deleteUser that succeeds for a teacher deletes the teacher's batches.
C24_NoBatchOfDeletedTeacher ==
    \A b \in BatchIds : BatchExists(b) => batches[b].teacher \in users

(***************************************************************************)
(* Claims about material updates                                           *)
(***************************************************************************)
\* C25: an updateMaterial with a replacement file, by the uploader or an
\* admin, whose deletion of the old stored file fails still answers 200 and
\* stores the material with the new file and the new title.
C25_UnlinkFailureDoesNotBlock ==
    [][(/\ resp'.op = "updateMaterial"
        /\ resp'.file # None
        /\ resp'.unlinkFails
        /\ \E m \in findMaterial(resp'.id) :
            /\ m.uploadedBy = resp'.caller \/ role(resp'.caller) = "admin"
            /\ preSaveUploader(m))
       => /\ resp'.status = 200
          /\ \E m \in materials' :
                /\ m.id = resp'.id
                /\ m.file = resp'.file
                /\ resp'.body.title # None => m.title = resp'.body.title]_vars

(***************************************************************************)
(* Claims about failed requests                                            *)
(***************************************************************************)
persisted == <<users, batches, attendance, payments, assignments, materials, uploads>>

\* C26: a request answered 404 or 403 leaves the database records and the
\* stored upload files exactly as they were before the request.
C26_FailedRequestChangesNothing ==
    [][resp'.status \in {403, 404} => persisted' = persisted]_vars

(***************************************************************************)
(* Claims about interleaved requests                                       *)
(***************************************************************************)
\* the request that a step finishes
Finished(req) == req \in inflight /\ inflight' = inflight \ {req}

SamePaymentKey(p, body) ==
    p.student = body.student /\ p.batch = body.batch /\ p.month = body.month

SameAttendanceKey(r, body) ==
    r.student = body.student /\ r.batch = body.batch /\ r.date = body.date

\* C27: of the create requests for one Payment key {student, batch, month} or
\* one Attendance key {student, batch, date} that have all passed the
\* existence check, the first to write is answered 201 and stores its own
\* data, every later one is answered 400 and changes nothing, so there is
\* never more than one record for a key.
C27_RaceHasOneWinner ==
    /\ [](\A p, q \in payments : SamePaymentKey(p, q) => p = q)
    /\ [](\A r, q \in attendance : SameAttendanceKey(r, q) => r = q)
    /\ [][\A req \in inflight :
            (Finished(req) /\ req.op = "createPayment")
            => IF \E p \in payments : SamePaymentKey(p, req.body)
               THEN resp'.status = 400 /\ payments' = payments
               ELSE /\ resp'.status = 201
                    /\ \E p \in payments' :
                        /\ SamePaymentKey(p, req.body)
                        /\ p.amount = req.body.amount
                        /\ p.recordedBy = req.caller
                        /\ payments' = payments \cup {p}]_vars
    /\ [][\A req \in inflight :
            (Finished(req) /\ req.op = "createAttendance")
            => IF \E r \in attendance : SameAttendanceKey(r, req.body)
               THEN resp'.status = 400 /\ attendance' = attendance
               ELSE /\ resp'.status = 201
                    /\ \E r \in attendance' :
                        /\ SameAttendanceKey(r, req.body)
                        /\ r.status = req.body.status
                        /\ r.markedBy = req.caller
                        /\ attendance' = attendance \cup {r}]_vars

\* both requests had passed the check; the second to write was refused and
\* the stored record is the other request's
C27_Witness ==
    /\ resp.op = "createPayment"
    /\ resp.status = 400
    /\ inflight = {}
    /\ \E p \in payments :
        /\ SamePaymentKey(p, resp.body)
        /\ p.recordedBy # resp.caller
        /\ p.amount # resp.body.amount

\* C29: whatever the interleaving of add-student requests, no batch lists a
\* student twice and no batch has more than maxStudents students.
C29_RosterSurvivesRace ==
    \A b \in BatchIds :
        BatchExists(b) => /\ NoDuplicates(batches[b].students)
                          /\ Len(batches[b].students) <= batches[b].maxStudents

====
